---- MODULE Spec2Model ----
(***************************************************************************)
(* krelay: the wire codec (Header, Acknowledgement, UDP framing), the      *)
(* server dispatcher (cmd/server handleConn), the client workers           *)
(* (handleTCPConn, handleUDPConn), the port forwarder loops and the        *)
(* remote-address resolver, as state machines.                             *)
(*                                                                         *)
(* The module holds several machines over disjoint groups of variables.    *)
(* Each specification runs one machine and leaves the others idle.         *)
(***************************************************************************)
EXTENDS Integers, Sequences, FiniteSets, TLC

VARIABLES
  \* ---- codec machine (Header.Marshal / Header.FromReader)
  hpc,      \* "init" | "written" | "decoded"
  hIn,      \* the Header handed to Marshal
  hTail,    \* bytes that follow the header in the reader
  hRd,      \* the reader's content handed to FromReader
  hRes,     \* FromReader's result
  \* ---- framing machine (UDPConn.ReadFrom / ReadUDPFromStream)
  fIn,      \* the datagrams the local socket delivers, in order
  fW,       \* how many of them were framed and written to the stream
  fStream,  \* the bytes of the stream not yet read
  fClosed,  \* the writer closed the stream
  fOut,     \* the payloads ReadUDPFromStream returned, in order
  fErr,     \* a ReadUDPFromStream call returned an error
  \* ---- session machine: one logical stream, its client-side peer and
  \*      the dispatcher's handleConn
  wKind,    \* "tcp" (handleTCPConn) | "udp" (handleUDPConn) | "raw" (any other peer of the server port)
  wHdr,     \* the Header a worker sends
  wRaw,     \* the bytes a raw peer sends
  wpc,      \* the peer's position
  wLog,     \* what the worker did on the stream and the local side, in order
  wAck,     \* the Acknowledgement code the worker read (0: none)
  wLocal,   \* "open" | "eof" (local client finished sending) | "closed" (worker closed the local connection)
  wUp,      \* payload items the worker copied from the local side to the stream
  wDown,    \* payload items the worker copied from the stream to the local side
  nC2S,     \* bytes written by the peer, not yet read by the dispatcher
  nS2C,     \* bytes written by the dispatcher, not yet read by the peer
  nPeerEOF, \* the peer closed its sending side of the stream
  nBroken,  \* the connection under the stream failed
  dpc,      \* handleConn's position
  dRes,     \* Header.FromReader's result in handleConn
  dDial,    \* the dial outcome: none yet, ok, or an error
  dLog,     \* what handleConn did, in order
  dUp,      \* payload items the dispatcher wrote upstream
  upReply,  \* reply items the upstream server still has to send
  \* ---- forwarder machine: portForwarder.run with its resolver, its
  \*      workers and the server side of their streams
  pKind,    \* "tcp" | "udp": the listener of this port pair
  rAddr,    \* the address the resolver has cached
  rUpd,     \* how often the resolver replaced it
  flows,    \* the flows created so far, in order of creation
  track,    \* the conntrack table: source key -> flow whose channel it holds (0: no entry)
  lpc,      \* the listener loop: "read" (in Accept / ReadFrom) | "send" (in dataCh <- data)
  lCh,      \* the flow whose channel the listener sends on
  cpc,      \* the conntrack cleaner: "recv" (in range finish) | "del" (before track.Delete)
  cKey,      \* the key the cleaner received
  \* ---- resolver machine: dynamicAddr with the pods its selector matches and its watcher
  kPods, \* pod name -> "Absent" | "Pending" | "Running" | "Terminating" (Running with a deletion timestamp) | "Failed"
  kCreated, \* pod name -> creation timestamp
  kEv, \* the watch events not yet received, oldest first
  kChg, \* how many changes the pods have gone through
  aState, \* "new" | "failed" (NewDynamicAddr returned an error) | "watch" (in range w.ResultChan()) | "poll" (in PollUntilContextTimeout)
  aPodName, \* dynamicAddr.podName
  aAddr, \* dynamicAddr.addr
  aPoll, \* attempts left in the retry budget
  aOut, \* how the last retry loop ended: "none" | "updated" | "timeout"
  aGood, \* the address stored by the most recent successful updatePodIP
  aPick, \* the pod the most recent successful updatePodIP chose, as it was listed
  aListed, \* a List of the current retry loop showed a Running pod
  gRes, \* the result of the last Get() call
  \* ---- error streams of one tunnel (createStream, handleTCPConn)
  eW, \* position of each worker in handleTCPConn
  eG, \* position of the goroutine createStream started for the stream
  eMsg, \* what io.ReadAll(errStream) returned
  eCh, \* errCh, open or closed
  eGot, \* what the worker received from errorChan
  eClosed, \* the tunnel connection is closed
  \* ---- SOCKS5 front end (socks5Handshake, handleSOCKS5Conn)
  qReq, \* the request the client sends
  qIn, \* bytes of the client not yet read
  qBuf, \* br.buf
  qOut, \* bytes written to the client
  qpc, \* position in socks5Handshake / handleSOCKS5Conn
  qCmd, \* cmd
  qAddr, \* addr
  qPort, \* port
  qErr, \* the error socks5Handshake returns
  qRet, \* the AddrPort socks5Handshake returns
  qHdr, \* destination and protocol of the Header of the flow started for the connection
  qWrFail, \* a write to the client failed
  \* ---- Options.Run from the listen loop on, with the forwarders it starts
  oF, \* the portForwarders: protocol, listener, position in run, connections and datagrams taken
  oI, \* index of the listen loop
  oSucceeded, \* succeeded
  oPc, \* position in Options.Run
  oErr, \* the error Run returns
  oTunnel, \* the tunnel connection: none, open or closed
  \* ---- ProxyTCP and its two brokers
  tSrc, \* bytes each connection will still deliver to its reader
  tRead, \* bytes each broker has read from its source
  tBuf, \* the buffers taken from tcpPool
  tN, \* number of bytes of the last read of each broker
  tWritten, \* bytes each broker has written to its destination
  tB, \* position of each broker
  tRdClosed, \* connections whose read side was closed
  tClosed, \* connections that were closed
  tM, \* position of ProxyTCP
  tWait, \* waitFor
  tFirst, \* the connection whose broker closed its channel first
  tLinger, \* the connections SetLinger(0) was called on
  \* ---- ports.Parser.Parse
  yObj, \* p.obj, as the ports it declares
  yArgs, \* p.args, each as the parts it was written from
  yI, \* index of the loop over p.args
  yRet, \* ret
  yErr, \* the error Parse returns
  ypc, \* position in Parse
  \* ---- parseTargetsFile
  zDefNs, \* defaultNamespace
  zFile, \* the lines of the file, each with the target it is meant to give
  zLine, \* lineNo
  zNs, \* ns, the variable of the -n flag
  zAddr, \* listenAddr, the variable of the -l flag
  zRet, \* ret
  zErr, \* the error parseTargetsFile returns
  zpc, \* position in parseTargetsFile
  \* ---- Addr round trip (addr_test.go)
  vCases, \* the addresses to build, in order
  vI, \* the case being handled
  vA, \* the Addr built
  vStr, \* a.String()
  vBack, \* AddrFromIP(a.String())
  vpc, \* build, string, parse, compare, done
  \* ---- UDP listener loop of portForwarder.run, its conntrack table, workers and cleaner
  uTrack, \* track.items: the channel of each source key, 0 for none
  uChans, \* the channels made so far
  uW, \* the handleUDPConn goroutines started, in order
  ulpc, \* the listener loop: read, send
  ulCh, \* the channel the listener sends on
  ulKey, \* the source of the datagram the listener holds
  uLast, \* the datagram the listener read last: none, held, dropped, sent
  ucpc, \* the cleaner goroutine: recv, del
  ucKey, \* the key the cleaner received
  \* ---- ProxyUDP on the server: the two brokers, the idle alarm, the stream from the client
  xFrames, \* the payloads the client framed, in order
  xWire, \* bytes of the stream still on their way to the server
  xRcv, \* bytes that arrived and are not yet read
  xd, \* the downstream broker: len, payload, write, exited
  xGot, \* bytes the current ReadFull has read
  xBuf, \* the payload read, to be written upstream
  xUp, \* the payloads written upstream
  xu, \* the upstream broker: read, write, exited
  xReplies, \* datagrams the upstream peer still sends
  xDown, \* datagrams written downstream
  xDone, \* the alarm has fired (done is closed)
  xResetCalls, \* calls of a.Reset()
  xArmed, \* times the timer was set again
  xClosed, \* connections closed by ProxyUDP
  xm, \* ProxyUDP itself: select, wait, returned
  \* ---- UDPConn.Read and UDPConn.ReadFrom on the buffers of the forwarder
  jIn, \* the sizes of the datagrams that arrive, in order
  jI, \* the datagrams read so far
  jHow, \* the method called last: Read, ReadFrom
  jN, \* the bytes the socket put into buf[2:]
  jPre, \* buf[:2] after the call
  jRet, \* the count the call returned
  \* ---- accept loops: portForwarder.run (tcp, udp) and runSOCKS5Server
  bKind, \* the loop: "tcp", "udp" or "socks5"
  bTunnel, \* streamConn: "open" or "closed" (CloseChan is closed)
  bRun, \* Run of the command: "wait" at its select, or "returned"
  bpc, \* position of the loop
  bListener, \* the listener: "open" or "closed"
  bTaken, \* connections accepted and datagrams read
  bHanded, \* connections and datagrams handed to a worker
  bLate, \* those handed to a worker when the tunnel was closed
  \* ---- updatePodIP machine: one call of dynamicAddr.updatePodIP beside a reader of the cache
  iItems, \* podList.Items, as the List call returns them
  iListOK, \* whether the List call succeeds
  iOld, \* podName and addr before the call
  ipc, \* position of updatePodIP
  iPick, \* the pod the loop over the sorted pods stopped at
  iName, \* dynamicAddr.podName
  iAddr, \* dynamicAddr.addr
  iLock, \* dynamicAddr.mu: "free", "w" (Lock) or "r" (RLock)
  iRet, \* what updatePodIP returned
  iGot, \* what the reader got under its RLock
  \* ---- the connection accepted by runSOCKS5Server, beside the SOCKS5 machine
  qConn, \* the accepted connection: "open" or "closed"
  qExit, \* the exit path handleTCPConn took
  \* ---- alarm machine: one Alarm with its goroutine, its timer and a caller of Reset and Done
  mG, \* position of the goroutine of Start
  mLeft, \* ticks until the timer expires, 0 when it is not running
  mC, \* whether t.C holds a value
  mDone, \* whether a.done is closed
  mR, \* the caller: "idle" or "sending" (inside Reset)
  mElapsed, \* ticks since Start or since the last Reset was taken
  mCalls, \* calls of Reset that have returned
  mSaw \* what the last call of Done returned

codecVars == <<hpc, hIn, hTail, hRd, hRes>>

frameVars == <<fIn, fW, fStream, fClosed, fOut, fErr>>

workerVars == <<wKind, wHdr, wRaw, wpc, wLog, wAck, wLocal, wUp, wDown>>

netVars == <<nC2S, nS2C, nPeerEOF, nBroken>>

dispVars == <<dpc, dRes, dDial, dLog, dUp, upReply>>

sessVars == <<workerVars, netVars, dispVars>>

fwdVars == <<pKind, rAddr, rUpd, flows, track, lpc, lCh, cpc, cKey>>

resVars == <<kPods, kCreated, kEv, kChg, aState, aPodName, aAddr, aPoll, aOut, aGood, aPick, aListed, gRes>>

errVars == <<eW, eG, eMsg, eCh, eGot, eClosed>>

socksVars == <<qReq, qIn, qBuf, qOut, qpc, qCmd, qAddr, qPort, qErr, qRet, qHdr, qWrFail>>

runVars == <<oF, oI, oSucceeded, oPc, oErr, oTunnel>>

tcpVars == <<tSrc, tRead, tBuf, tN, tWritten, tB, tRdClosed, tClosed, tM, tWait, tFirst, tLinger>>

portsVars == <<yObj, yArgs, yI, yRet, yErr, ypc>>

targetsVars == <<zDefNs, zFile, zLine, zNs, zAddr, zRet, zErr, zpc>>

addrVars == <<vCases, vI, vA, vStr, vBack, vpc>>

udpVars == <<uTrack, uChans, uW, ulpc, ulCh, ulKey, uLast, ucpc, ucKey>>

pudpVars == <<xFrames, xWire, xRcv, xd, xGot, xBuf, xUp, xu, xReplies, xDown, xDone, xResetCalls, xArmed, xClosed, xm>>

connVars == <<jIn, jI, jHow, jN, jPre, jRet>>

loopVars == <<bKind, bTunnel, bRun, bpc, bListener, bTaken, bHanded, bLate>>

pickVars == <<iItems, iListOK, iOld, ipc, iPick, iName, iAddr, iLock, iRet, iGot>>

acceptedVars == <<qConn, qExit>>

alarmVars == <<mG, mLeft, mC, mDone, mR, mElapsed, mCalls, mSaw>>

vars == <<codecVars, frameVars, sessVars, fwdVars, resVars, errVars, socksVars, runVars, tcpVars, portsVars, targetsVars, addrVars, udpVars, pudpVars, connVars, loopVars, pickVars, acceptedVars, alarmVars>>

codecOthers == <<frameVars, sessVars, fwdVars, resVars, errVars, socksVars, runVars, tcpVars, portsVars, targetsVars, addrVars, udpVars, pudpVars, connVars, loopVars, pickVars, acceptedVars, alarmVars>>

frameOthers == <<codecVars, sessVars, fwdVars, resVars, errVars, socksVars, runVars, tcpVars, portsVars, targetsVars, addrVars, udpVars, pudpVars, connVars, loopVars, pickVars, acceptedVars, alarmVars>>

sessOthers == <<codecVars, frameVars, fwdVars, resVars, errVars, socksVars, runVars, tcpVars, portsVars, targetsVars, addrVars, udpVars, pudpVars, connVars, loopVars, pickVars, acceptedVars, alarmVars>>

fwdOthers == <<codecVars, frameVars, sessVars, resVars, errVars, socksVars, runVars, tcpVars, portsVars, targetsVars, addrVars, udpVars, pudpVars, connVars, loopVars, pickVars, acceptedVars, alarmVars>>

resOthers == <<codecVars, frameVars, sessVars, fwdVars, errVars, socksVars, runVars, tcpVars, portsVars, targetsVars, addrVars, udpVars, pudpVars, connVars, loopVars, pickVars, acceptedVars, alarmVars>>

errOthers == <<codecVars, frameVars, sessVars, fwdVars, resVars, socksVars, runVars, tcpVars, portsVars, targetsVars, addrVars, udpVars, pudpVars, connVars, loopVars, pickVars, acceptedVars, alarmVars>>

socksOthers == <<codecVars, frameVars, sessVars, fwdVars, resVars, errVars, runVars, tcpVars, portsVars, targetsVars, addrVars, udpVars, pudpVars, connVars, loopVars, pickVars, acceptedVars, alarmVars>>

runOthers == <<codecVars, frameVars, sessVars, fwdVars, resVars, errVars, socksVars, tcpVars, portsVars, targetsVars, addrVars, udpVars, pudpVars, connVars, loopVars, pickVars, acceptedVars, alarmVars>>

tcpOthers == <<codecVars, frameVars, sessVars, fwdVars, resVars, errVars, socksVars, runVars, portsVars, targetsVars, addrVars, udpVars, pudpVars, connVars, loopVars, pickVars, acceptedVars, alarmVars>>

portsOthers == <<codecVars, frameVars, sessVars, fwdVars, resVars, errVars, socksVars, runVars, tcpVars, targetsVars, addrVars, udpVars, pudpVars, connVars, loopVars, pickVars, acceptedVars, alarmVars>>

targetsOthers == <<codecVars, frameVars, sessVars, fwdVars, resVars, errVars, socksVars, runVars, tcpVars, portsVars, addrVars, udpVars, pudpVars, connVars, loopVars, pickVars, acceptedVars, alarmVars>>

addrOthers == <<codecVars, frameVars, sessVars, fwdVars, resVars, errVars, socksVars, runVars, tcpVars, portsVars, targetsVars, udpVars, pudpVars, connVars, loopVars, pickVars, acceptedVars, alarmVars>>

udpOthers == <<codecVars, frameVars, sessVars, fwdVars, resVars, errVars, socksVars, runVars, tcpVars, portsVars, targetsVars, addrVars, pudpVars, connVars, loopVars, pickVars, acceptedVars, alarmVars>>

pudpOthers == <<codecVars, frameVars, sessVars, fwdVars, resVars, errVars, socksVars, runVars, tcpVars, portsVars, targetsVars, addrVars, udpVars, connVars, loopVars, pickVars, acceptedVars, alarmVars>>

connOthers == <<codecVars, frameVars, sessVars, fwdVars, resVars, errVars, socksVars, runVars, tcpVars, portsVars, targetsVars, addrVars, udpVars, pudpVars, loopVars, pickVars, acceptedVars, alarmVars>>

loopOthers == <<codecVars, frameVars, sessVars, fwdVars, resVars, errVars, socksVars, runVars, tcpVars, portsVars, targetsVars, addrVars, udpVars, pudpVars, connVars, pickVars, acceptedVars, alarmVars>>

pickOthers == <<codecVars, frameVars, sessVars, fwdVars, resVars, errVars, socksVars, runVars, tcpVars, portsVars, targetsVars, addrVars, udpVars, pudpVars, connVars, loopVars, acceptedVars, alarmVars>>

acceptedOthers == <<codecVars, frameVars, sessVars, fwdVars, resVars, errVars, socksVars, runVars, tcpVars, portsVars, targetsVars, addrVars, udpVars, pudpVars, connVars, loopVars, pickVars, alarmVars>>

alarmOthers == <<codecVars, frameVars, sessVars, fwdVars, resVars, errVars, socksVars, runVars, tcpVars, portsVars, targetsVars, addrVars, udpVars, pudpVars, connVars, loopVars, pickVars, acceptedVars>>

(***************************************************************************)
(* Bytes and integers of fixed width                                       *)
(***************************************************************************)
Byte == 0..255

ToUint16(n) == n % 65536

\* binary.BigEndian.PutUint16
PutUint16(v) == << v \div 256, v % 256 >>

\* binary.BigEndian.Uint16
Uint16(b) == b[1] * 256 + b[2]

Min(a, b) == IF a < b THEN a ELSE b

Take(s, n) == SubSeq(s, 1, Min(n, Len(s)))

Drop(s, n) == SubSeq(s, Min(n, Len(s)) + 1, Len(s))

Zeros(n) == [i \in 1..n |-> 0]

(***************************************************************************)
(* Wire constants                                                          *)
(***************************************************************************)
lengthAllMandatoryFields == 12

lengthRequestID == 5

ProtocolTCP == 0

ProtocolUDP == 1

AddrTypeIP == 0

AddrTypeHost == 1

AckCodeOK == 1

AckCodeUnknownError == 2

AckCodeNoSuchHost == 3

AckCodeResolveTimeout == 4

AckCodeConnectTimeout == 5

AckCodeUnknownProtocol == 6

(***************************************************************************)
(* Address and Header                                                      *)
(***************************************************************************)
\* a decoder that tells IP from Host by the payload length, not by the tag
AddrFromBytes_ByLength(addrType, data) ==
  [typ |-> IF Len(data) \in {4, 16} THEN AddrTypeIP ELSE AddrTypeHost, data |-> data]

AddrFromBytes(addrType, data) == [typ |-> addrType, data |-> data]

AddrMarshal(a) == a.data

AddrIsZero(a) == Len(a.data) = 0

\* copy(buf[cursor:cursor+lengthRequestID], h.RequestID): the bytes of the
\* request ID that fit, the rest of the field keeps the zero of make().
CopyRequestID(id) == Take(id, lengthRequestID) \o Zeros(lengthRequestID - Min(Len(id), lengthRequestID))

MarshalLength(totalLen) == PutUint16(ToUint16(totalLen))

\* the port written low byte first
MarshalPort_LittleEndian(port) == << port % 256, port \div 256 >>

MarshalPort(port) == PutUint16(port)

HeaderMarshal(h) ==
  LET addrBytes == AddrMarshal(h.Addr)
      totalLen  == lengthAllMandatoryFields + Len(addrBytes)
  IN  <<h.Version>>
        \o MarshalLength(totalLen)
        \o CopyRequestID(h.RequestID)
        \o <<h.Protocol>>
        \o MarshalPort(h.Port)
        \o <<h.Addr.typ>>
        \o addrBytes

NoHeader == [Version |-> 0, RequestID |-> <<>>, Protocol |-> 0, Port |-> 0,
             Addr |-> [typ |-> 0, data |-> <<>>]]

\* the check of the stated total length against the mandatory fields
TotalLenTooShort(totalLen) == totalLen < lengthAllMandatoryFields

\* Header.FromReader on a reader holding exactly the bytes r (then EOF).
\* err: "" | "read total length" | "body too short" | "read full body";
\* n: the number of bytes taken from the reader; hdr: the receiver after
\* the call.
HeaderFromReader(r) ==
  IF Len(r) < 3
    THEN [err |-> "read total length", n |-> Len(r), hdr |-> NoHeader]
    ELSE
      LET version  == r[1]
          totalLen == Uint16(SubSeq(r, 2, 3))
          started  == [NoHeader EXCEPT !.Version = version]
      IN  IF TotalLenTooShort(totalLen)
            THEN [err |-> "body too short", n |-> 3, hdr |-> started]
            ELSE
              IF Len(r) < totalLen
                THEN [err |-> "read full body", n |-> Len(r), hdr |-> started]
                ELSE
                  LET bodyBuf == SubSeq(r, 4, totalLen)
                  IN  [err |-> "",
                       n   |-> totalLen,
                       hdr |-> [Version   |-> version,
                                RequestID |-> SubSeq(bodyBuf, 1, lengthRequestID),
                                Protocol  |-> bodyBuf[lengthRequestID + 1],
                                Port      |-> Uint16(SubSeq(bodyBuf, lengthRequestID + 2, lengthRequestID + 3)),
                                Addr      |-> AddrFromBytes(bodyBuf[lengthRequestID + 4],
                                                            SubSeq(bodyBuf, lengthRequestID + 5, Len(bodyBuf)))]]

NoResult == [err |-> "none", n |-> 0, hdr |-> NoHeader]

NoErr == [dns |-> "none", op |-> FALSE, opTimeout |-> FALSE]

\* no dial was made
NoDial == [st |-> "none", err |-> NoErr]

(***************************************************************************)
(* Codec machine: inputs                                                   *)
(***************************************************************************)
MaxAddrLen == 255

Pattern(n, b) == [i \in 1..n |-> (b + i) % 256]

CodecAddrLens == {0, 1, 4, 16, MaxAddrLen}

CodecAddrs == { [typ |-> t, data |-> Pattern(n, b)] : t \in {AddrTypeIP, AddrTypeHost}, n \in CodecAddrLens, b \in {0, 200} }

CodecRequestIDs == { <<48, 48, 48, 48, 48>>, <<97, 0, 255, 100, 101>>, <<49, 50, 51>> }

CodecHeaders ==
  { [Version |-> v, RequestID |-> id, Protocol |-> p, Port |-> port, Addr |-> a] :
      v \in {0, 1}, id \in CodecRequestIDs, p \in {ProtocolTCP, ProtocolUDP, 2},
      port \in {0, 80, 8080, 65535}, a \in CodecAddrs }

CodecTails == { <<>>, <<0, 12, 9>> }

\* byte strings that no Marshal produced: a stated total length below the
\* mandatory fields, with or without bytes behind it, and whole headers
\* with a stated total length at and beyond 12 + 255
CodecRawInputs ==
  { <<v>> \o PutUint16(t) \o tail : v \in {0, 1}, t \in {0, 3, 11}, tail \in CodecTails }
    \cup { <<>>, <<0>>, <<0, 0>> }
    \cup { <<0>> \o PutUint16(t) \o Pattern(t - 3, 0) : t \in {12, 267, 268, 300} }

\* no resolver was built
ResIdle ==
  /\ kPods = <<>> /\ kCreated = <<>> /\ kEv = <<>> /\ kChg = 0
  /\ aState = "none" /\ aPodName = "" /\ aAddr = [typ |-> 0, data |-> <<>>] /\ aPoll = 0
  /\ aOut = "none" /\ aGood = [typ |-> 0, data |-> <<>>] /\ aPick = [name |-> "", st |-> "Absent"]
  /\ aListed = FALSE
  /\ gRes = [n |-> 0, addr |-> [typ |-> 0, data |-> <<>>], err |-> "", want |-> [typ |-> 0, data |-> <<>>]]

\* no stream was created
ErrIdle ==
  /\ eW = <<>> /\ eG = <<>> /\ eMsg = <<>> /\ eCh = <<>> /\ eGot = <<>>
  /\ eClosed = FALSE

\* no SOCKS5 connection was accepted
SocksIdle ==
  /\ qReq = <<>> /\ qIn = <<>> /\ qBuf = <<>> /\ qOut = <<>>
  /\ qpc = "none" /\ qCmd = 0 /\ qAddr = [typ |-> 0, data |-> <<>>] /\ qPort = 0
  /\ qErr = "" /\ qRet = [addr |-> [typ |-> 0, data |-> <<>>], port |-> 0]
  /\ qHdr = [Protocol |-> 255, Port |-> 0, Addr |-> [typ |-> 0, data |-> <<>>]]
  /\ qWrFail = FALSE

\* Options.Run was not called
RunIdle ==
  /\ oF = <<>> /\ oI = 0 /\ oSucceeded = FALSE
  /\ oPc = "none" /\ oErr = "" /\ oTunnel = "none"

\* ProxyTCP was not called
TcpIdle ==
  /\ tSrc = <<>> /\ tRead = <<>> /\ tBuf = <<>> /\ tN = <<>> /\ tWritten = <<>>
  /\ tB = <<>> /\ tRdClosed = {} /\ tClosed = {} /\ tM = "none" /\ tWait = "none"
  /\ tFirst = "none" /\ tLinger = {}

\* Parse was not called
PortsIdle ==
  /\ yObj = <<>> /\ yArgs = <<>> /\ yI = 0 /\ yRet = <<>> /\ yErr = "" /\ ypc = "none"

\* parseTargetsFile was not called
TargetsIdle ==
  /\ zDefNs = "" /\ zFile = <<>> /\ zLine = 0 /\ zNs = "" /\ zAddr = ""
  /\ zRet = <<>> /\ zErr = "" /\ zpc = "none"

AddrIdle ==
  /\ vCases = <<>> /\ vI = 0 /\ vA = [typ |-> 0, data |-> <<>>] /\ vStr = ""
  /\ vBack = [addr |-> [typ |-> 0, data |-> <<>>], err |-> ""] /\ vpc = "none"

UdpIdle ==
  /\ uTrack = <<>> /\ uChans = 0 /\ uW = <<>> /\ ulpc = "none" /\ ulCh = 0 /\ ulKey = "none"
  /\ uLast = "none" /\ ucpc = "none" /\ ucKey = "none"

PudpIdle ==
  /\ xFrames = <<>> /\ xWire = <<>> /\ xRcv = <<>> /\ xd = "none" /\ xGot = <<>> /\ xBuf = <<>>
  /\ xUp = <<>> /\ xu = "none" /\ xReplies = 0 /\ xDown = 0 /\ xDone = FALSE
  /\ xResetCalls = 0 /\ xArmed = 0 /\ xClosed = {} /\ xm = "none"

ConnIdle ==
  /\ jIn = <<>> /\ jI = 0 /\ jHow = "none" /\ jN = 0 /\ jPre = <<>> /\ jRet = 0

LoopIdle ==
  /\ bKind = "none" /\ bTunnel = "none" /\ bRun = "none" /\ bpc = "none"
  /\ bListener = "none" /\ bTaken = 0 /\ bHanded = 0 /\ bLate = 0

PickIdle ==
  /\ iItems = <<>> /\ iListOK = FALSE /\ iOld = [name |-> "", addr |-> [typ |-> 0, data |-> <<>>]]
  /\ ipc = "none" /\ iPick = [name |-> "", phase |-> "", created |-> 0]
  /\ iName = "" /\ iAddr = [typ |-> 0, data |-> <<>>] /\ iLock = "none"
  /\ iRet = [rv |-> "", err |-> ""] /\ iGot = [name |-> "", addr |-> [typ |-> 0, data |-> <<>>]]

AcceptedIdle ==
  /\ qConn = "none" /\ qExit = "none"

AlarmIdle ==
  /\ mG = "none" /\ mLeft = 0 /\ mC = FALSE /\ mDone = FALSE /\ mR = "none"
  /\ mElapsed = 0 /\ mCalls = 0 /\ mSaw = "none"

\* no forwarder is running
FwdIdle ==
  /\ pKind = "none" /\ rAddr = [typ |-> 0, data |-> <<>>] /\ rUpd = 0 /\ flows = <<>> /\ track = <<>>
  /\ lpc = "none" /\ lCh = 0
  /\ cpc = "none" /\ cKey = "none"

SessIdle ==
  /\ wKind = "none" /\ wHdr = NoHeader /\ wRaw = <<>> /\ wpc = "idle" /\ wLog = <<>>
  /\ wAck = 0 /\ wLocal = "open" /\ wUp = 0 /\ wDown = 0
  /\ nC2S = <<>> /\ nS2C = <<>> /\ nPeerEOF = FALSE /\ nBroken = FALSE
  /\ dpc = "idle" /\ dRes = NoResult /\ dDial = NoDial /\ dLog = <<>> /\ dUp = <<>>
  /\ upReply = 0

FrameIdle ==
  /\ fIn = <<>>
  /\ fW = 0
  /\ fStream = <<>>
  /\ fClosed = FALSE
  /\ fOut = <<>>
  /\ fErr = FALSE

CodecInit ==
  /\ AlarmIdle
  /\ AcceptedIdle
  /\ PickIdle
  /\ LoopIdle
  /\ ConnIdle
  /\ PudpIdle
  /\ UdpIdle
  /\ AddrIdle
  /\ TargetsIdle
  /\ PortsIdle
  /\ TcpIdle
  /\ RunIdle
  /\ SocksIdle
  /\ ErrIdle
  /\ ResIdle
  /\ FrameIdle
  /\ SessIdle
  /\ FwdIdle
  /\ hpc = "init"
  /\ hIn \in CodecHeaders
  /\ hTail \in CodecTails
  /\ hRd = <<>>
  /\ hRes = NoResult

CodecIdle ==
  /\ hpc = "idle"
  /\ hIn = NoHeader
  /\ hTail = <<>>
  /\ hRd = <<>>
  /\ hRes = NoResult

\* xio.WriteFull(w, hdr.Marshal()), then whatever the peer sends next
CodecMarshal ==
  /\ hpc = "init"
  /\ hRd' = HeaderMarshal(hIn) \o hTail
  /\ hpc' = "written"
  /\ UNCHANGED <<hIn, hTail, hRes>>
  /\ UNCHANGED codecOthers

\* a peer that writes bytes of its own
CodecRawWrite ==
  /\ hpc = "init"
  /\ \E raw \in CodecRawInputs : hRd' = raw
  /\ hpc' = "raw"
  /\ UNCHANGED <<hIn, hTail, hRes>>
  /\ UNCHANGED codecOthers

CodecFromReader ==
  /\ hpc \in {"written", "raw"}
  /\ hRes' = HeaderFromReader(hRd)
  /\ hpc' = IF hpc = "written" THEN "decoded" ELSE "rawDecoded"
  /\ UNCHANGED <<hIn, hTail, hRd>>
  /\ UNCHANGED codecOthers

CodecNext == CodecMarshal \/ CodecRawWrite \/ CodecFromReader

SpecCodec == CodecInit /\ [][CodecNext]_vars

\* the bytes Marshal produced, without what the peer wrote behind them
CodecMarshalled == Take(hRd, Len(hRd) - Len(hTail))

\* C6: for every Header with a 5-byte request ID and an address payload of
\* 0 to 255 bytes, FromReader applied to Marshal(h) succeeds, yields a Header
\* equal to h in every field, and consumes exactly the marshalled bytes.
C6_RoundTrip ==
  (hpc = "decoded" /\ Len(hIn.RequestID) = 5 /\ Len(hIn.Addr.data) <= 255)
    => /\ hRes.err = ""
       /\ hRes.hdr.Version = hIn.Version
       /\ hRes.hdr.RequestID = hIn.RequestID
       /\ hRes.hdr.Protocol = hIn.Protocol
       /\ hRes.hdr.Port = hIn.Port
       /\ hRes.hdr.Addr.typ = hIn.Addr.typ
       /\ hRes.hdr.Addr.data = hIn.Addr.data
       /\ Drop(hRd, hRes.n) = hTail

C6_Witness ==
  /\ hpc = "decoded"
  /\ Len(hIn.RequestID) = 5
  /\ Len(hIn.Addr.data) = 16
  /\ hIn.Addr.typ = AddrTypeHost
  /\ hIn.Port = 8080
  /\ hTail # <<>>
  /\ hRes.err = ""

\* C7: Marshal(h) has length 12 + len(address payload); bytes 1 and 2 of it
\* are that length as a big-endian 16-bit integer; bytes 9 and 10 are the
\* port as a big-endian 16-bit integer.
C7_MarshalLayout ==
  hpc \in {"written", "decoded"}
    => LET m == CodecMarshalled
       IN  /\ Len(hRd) = 12 + Len(hIn.Addr.data) + Len(hTail)
           /\ m[2] * 256 + m[3] = 12 + Len(hIn.Addr.data)
           /\ m[2] \in Byte /\ m[3] \in Byte
           /\ m[10] * 256 + m[11] = hIn.Port
           /\ m[10] \in Byte /\ m[11] \in Byte

C7_Witness ==
  /\ hpc = "written"
  /\ Len(hIn.Addr.data) = 255
  /\ hIn.Port = 8080
  /\ hRd[2] = 1 /\ hRd[3] = 11
  /\ hRd[10] = 31 /\ hRd[11] = 144

(***************************************************************************)
(* UDP framing                                                             *)
(***************************************************************************)
UDPBufferSize == 65538

\* a length prefix that counts its own two bytes
FrameLength_WithPrefix(n) == PutUint16(ToUint16(n + 2))

\* binary.BigEndian.PutUint16(buf[:2], uint16(n))
FrameLength(n) == PutUint16(ToUint16(n))

\* UDPConn.ReadFrom / UDPConn.Read on a buffer of bufLen bytes when the
\* socket delivers the datagram payload: the socket fills buf[2:], the
\* length goes to buf[:2], and the call returns buf[:n+2].
UDPConnRead(payload, bufLen) ==
  LET n == Min(Len(payload), bufLen - 2)
  IN  FrameLength(n) \o Take(payload, n)

\* ReadUDPFromStream on the bytes r, which are followed by EOF iff eof.
\* A read of a frame that is not yet whole blocks unless the stream ended.
ReadUDPFromStreamReady(r, eof) ==
  \/ eof
  \/ Len(r) >= 2 /\ Len(r) >= 2 + Uint16(Take(r, 2))

ReadUDPFromStream(r) ==
  IF Len(r) < 2
    THEN [err |-> TRUE, data |-> <<>>, rest |-> <<>>]
    ELSE
      LET length == Uint16(Take(r, 2))
      IN  IF Len(r) < 2 + length
            THEN [err |-> TRUE, data |-> <<>>, rest |-> <<>>]
            ELSE [err |-> FALSE, data |-> SubSeq(r, 3, 2 + length), rest |-> Drop(r, 2 + length)]

MaxDatagrams == 3

FramePayloads == { <<>>, <<5>>, <<0, 2>>, Pattern(300, 0) }

RECURSIVE SeqsUpTo(_, _)
SeqsUpTo(S, n) ==
  IF n = 0 THEN { <<>> }
  ELSE LET shorter == SeqsUpTo(S, n - 1)
       IN  shorter \cup { Append(q, x) : q \in { t \in shorter : Len(t) = n - 1 }, x \in S }

FrameInit ==
  /\ AlarmIdle
  /\ AcceptedIdle
  /\ PickIdle
  /\ LoopIdle
  /\ ConnIdle
  /\ PudpIdle
  /\ UdpIdle
  /\ AddrIdle
  /\ TargetsIdle
  /\ PortsIdle
  /\ TcpIdle
  /\ RunIdle
  /\ SocksIdle
  /\ ErrIdle
  /\ ResIdle
  /\ CodecIdle
  /\ SessIdle
  /\ FwdIdle
  /\ fIn \in SeqsUpTo(FramePayloads, MaxDatagrams)
  /\ fW = 0
  /\ fStream = <<>>
  /\ fClosed = FALSE
  /\ fOut = <<>>
  /\ fErr = FALSE

\* the listener frames the next datagram (UDPConn.ReadFrom) and the worker
\* writes the frame to the stream (xio.WriteFull)
FrameWrite ==
  /\ ~fClosed
  /\ fW < Len(fIn)
  /\ fStream' = fStream \o UDPConnRead(fIn[fW + 1], UDPBufferSize)
  /\ fW' = fW + 1
  /\ UNCHANGED <<fIn, fClosed, fOut, fErr>>
  /\ UNCHANGED frameOthers

\* the writer closes the stream after its last frame
FrameClose ==
  /\ ~fClosed
  /\ fW = Len(fIn)
  /\ fClosed' = TRUE
  /\ UNCHANGED <<fIn, fW, fStream, fOut, fErr>>
  /\ UNCHANGED frameOthers

\* one call of ReadUDPFromStream
FrameRead ==
  /\ ~fErr
  /\ ReadUDPFromStreamReady(fStream, fClosed)
  /\ LET res == ReadUDPFromStream(fStream)
     IN  /\ fErr' = res.err
         /\ fOut' = IF res.err THEN fOut ELSE Append(fOut, res.data)
         /\ fStream' = res.rest
  /\ UNCHANGED <<fIn, fW, fClosed>>
  /\ UNCHANGED frameOthers

FrameNext == FrameWrite \/ FrameClose \/ FrameRead

SpecFrame == FrameInit /\ [][FrameNext]_vars

AckMarshal(code) == << code >>

\* a dial error as errors.As sees it: the *net.DNSError of its chain, if
\* any, with its IsNotFound and IsTimeout flags, and the *net.OpError of its
\* chain, if any, with the value of its Timeout()
AllDialErrs ==
  { [dns |-> d, op |-> o, opTimeout |-> t] :
      d \in {"none", "plain", "notfound", "timeout", "notfound+timeout"},
      o \in BOOLEAN, t \in BOOLEAN }

DialErrs == { e \in AllDialErrs : e.op \/ ~e.opTimeout }

\* what dialer.DialContext may return
DialOutcomes == { [st |-> "ok", err |-> NoErr] } \cup { [st |-> "err", err |-> e] : e \in DialErrs }

DnsIsNotFound(e) == e.dns \in {"notfound", "notfound+timeout"}

DnsIsTimeout(e) == e.dns \in {"timeout", "notfound+timeout"}

\* the timeout checks made before the DNS checks
ackCodeFromErr_TimeoutFirst(e) ==
  IF e.op /\ e.opTimeout THEN AckCodeConnectTimeout
  ELSE IF e.dns # "none" /\ DnsIsNotFound(e) THEN AckCodeNoSuchHost
  ELSE IF e.dns # "none" /\ DnsIsTimeout(e) THEN AckCodeResolveTimeout
  ELSE AckCodeUnknownError

ackCodeFromErr(e) ==
  IF e.dns # "none" /\ DnsIsNotFound(e) THEN AckCodeNoSuchHost
  ELSE IF e.dns # "none" /\ DnsIsTimeout(e) THEN AckCodeResolveTimeout
  ELSE IF e.op /\ e.opTimeout THEN AckCodeConnectTimeout
  ELSE AckCodeUnknownError

(***************************************************************************)
(* Session machine: one logical stream between a client-side peer and the  *)
(* dispatcher                                                              *)
(***************************************************************************)
MaxPayload == 2

Ev(op, code, ok) == [op |-> op, code |-> code, ok |-> ok]

SessAddrs == { [typ |-> AddrTypeIP, data |-> <<10, 0, 0, 1>>], [typ |-> AddrTypeHost, data |-> <<97>>] }

SessHeader(proto, a) ==
  [Version |-> 0, RequestID |-> <<48, 49, 50, 51, 52>>, Protocol |-> proto, Port |-> 80, Addr |-> a]

\* what a peer that is not one of the workers may send: a well-formed
\* Header of any protocol byte with bytes behind it, a stated total length
\* below the mandatory fields, a Header cut short, nothing
SessRawInputs ==
  { HeaderMarshal(SessHeader(proto, a)) \o tail :
      proto \in {ProtocolTCP, ProtocolUDP, 2, 255}, a \in SessAddrs, tail \in {<<>>, <<0, 1, 9>>} }
    \cup { <<0>> \o PutUint16(t) \o tail : t \in {0, 3, 11}, tail \in {<<>>, <<1, 2, 3, 4, 5, 6, 7, 8, 9>>} }
    \cup { <<>>, <<0, 0>>, <<0, 0, 13, 1, 2>> }

\* one payload item on the stream: a byte of a TCP flow, a framed
\* one-byte datagram of a UDP flow
PayloadItem(proto, x) == IF proto = ProtocolUDP THEN UDPConnRead(<<x>>, UDPBufferSize) ELSE <<x>>

SessInit ==
  /\ AlarmIdle
  /\ AcceptedIdle
  /\ PickIdle
  /\ LoopIdle
  /\ ConnIdle
  /\ PudpIdle
  /\ UdpIdle
  /\ AddrIdle
  /\ TargetsIdle
  /\ PortsIdle
  /\ TcpIdle
  /\ RunIdle
  /\ SocksIdle
  /\ ErrIdle
  /\ ResIdle
  /\ CodecIdle /\ FrameIdle /\ FwdIdle
  /\ wKind \in {"tcp", "udp", "raw"}
  /\ \E a \in SessAddrs :
       wHdr = CASE wKind = "tcp" -> SessHeader(ProtocolTCP, a)
                [] wKind = "udp" -> SessHeader(ProtocolUDP, a)
                [] OTHER -> NoHeader
  /\ wRaw \in (IF wKind = "raw" THEN SessRawInputs ELSE { <<>> })
  /\ (wKind = "raw" => wHdr = NoHeader)
  /\ wpc = "create" /\ wLog = <<>> /\ wAck = 0 /\ wLocal = "open" /\ wUp = 0 /\ wDown = 0
  /\ nC2S = <<>> /\ nS2C = <<>> /\ nPeerEOF = FALSE /\ nBroken = FALSE
  /\ dpc = "idle" /\ dRes = NoResult /\ dDial = NoDial /\ dLog = <<>> /\ dUp = <<>>
  /\ upReply \in 0..MaxPayload

IsWorker == wKind \in {"tcp", "udp"}

\* the worker returns: handleTCPConn's deferred clientConn.Close();
\* handleUDPConn shares the listener's socket and closes nothing local
WorkerReturn(log) ==
  /\ wpc' = "done"
  /\ wLog' = IF wKind = "tcp" THEN Append(log, Ev("closeLocal", 0, TRUE)) ELSE log
  /\ wLocal' = IF wKind = "tcp" THEN "closed" ELSE wLocal

\* createStream: on success the dispatcher accepts the connection and
\* starts handleConn
WorkerCreateStream ==
  /\ IsWorker /\ wpc = "create"
  /\ \/ /\ wpc' = "hdr"
        /\ wLog' = Append(wLog, Ev("createStream", 0, TRUE))
        /\ dpc' = "readHdr"
        /\ UNCHANGED wLocal
     \/ /\ WorkerReturn(Append(wLog, Ev("createStream", 0, FALSE)))
        /\ UNCHANGED dpc
  /\ UNCHANGED <<wKind, wHdr, wRaw, wAck, wUp, wDown, netVars, dRes, dDial, dLog, dUp, upReply>>
  /\ UNCHANGED sessOthers

\* a worker that starts copying as soon as the Header is written
WorkerAfterHeader_NoAck == "proxy"

\* after the Header the worker reads the Acknowledgement
WorkerAfterHeader == "ack"

\* xio.WriteFull(dataStream, hdr.Marshal())
WorkerWriteHeader ==
  /\ IsWorker /\ wpc = "hdr"
  /\ IF nBroken
       THEN /\ WorkerReturn(Append(wLog, Ev("writeHdr", 0, FALSE)))
            /\ UNCHANGED nC2S
       ELSE /\ nC2S' = nC2S \o HeaderMarshal(wHdr)
            /\ wLog' = Append(wLog, Ev("writeHdr", 0, TRUE))
            /\ wpc' = WorkerAfterHeader
            /\ UNCHANGED wLocal
  /\ UNCHANGED <<wKind, wHdr, wRaw, wAck, wUp, wDown, nS2C, nPeerEOF, nBroken, dispVars>>
  /\ UNCHANGED sessOthers

\* the worker goes on to copy payload whatever the Acknowledgement says
WorkerAfterAck_IgnoreCode(code) == "proxy"

\* the check of the Acknowledgement code
WorkerAfterAck(code) == IF code # AckCodeOK THEN "done" ELSE "proxy"

\* ack.FromReader(dataStream) and the check of the code
WorkerReadAck ==
  /\ IsWorker /\ wpc = "ack"
  /\ \/ /\ nS2C # <<>>
        /\ LET code == Head(nS2C)
               log  == Append(wLog, Ev("readAck", code, TRUE))
           IN  /\ wAck' = code
               /\ nS2C' = Tail(nS2C)
               /\ IF WorkerAfterAck(code) = "done"
                    THEN WorkerReturn(log)
                    ELSE wpc' = "proxy" /\ wLog' = log /\ UNCHANGED wLocal
     \/ /\ nS2C = <<>>
        /\ dpc = "closed" \/ nBroken
        /\ WorkerReturn(Append(wLog, Ev("readAck", 0, FALSE)))
        /\ UNCHANGED <<wAck, nS2C>>
  /\ UNCHANGED <<wKind, wHdr, wRaw, wUp, wDown, nC2S, nPeerEOF, nBroken, dispVars>>
  /\ UNCHANGED sessOthers

\* local to remote: handleTCPConn's io.Copy(dataStream, clientConn), or
\* handleUDPConn's writer goroutine with a datagram from the listener
WorkerCopyUp ==
  /\ IsWorker /\ wpc = "proxy"
  /\ wLocal = "open" /\ ~nPeerEOF /\ ~nBroken
  /\ wUp < MaxPayload
  /\ nC2S' = nC2S \o PayloadItem(wHdr.Protocol, 100 + wUp)
  /\ wUp' = wUp + 1
  /\ wLog' = Append(wLog, Ev("copyUp", 0, TRUE))
  /\ UNCHANGED <<wKind, wHdr, wRaw, wpc, wAck, wLocal, wDown, nS2C, nPeerEOF, nBroken, dispVars>>
  /\ UNCHANGED sessOthers

\* the local client stops sending: handleTCPConn's copy goroutine ends and
\* its deferred dataStream.Close() runs
WorkerLocalEOF ==
  /\ wKind = "tcp" /\ wpc = "proxy"
  /\ wLocal = "open"
  /\ wLocal' = "eof"
  /\ nPeerEOF' = TRUE
  /\ wLog' = Append(wLog, Ev("closeStream", 0, TRUE))
  /\ UNCHANGED <<wKind, wHdr, wRaw, wpc, wAck, wUp, wDown, nC2S, nS2C, nBroken, dispVars>>
  /\ UNCHANGED sessOthers

\* remote to local: io.Copy(clientConn, dataStream), or the reader
\* goroutine's ReadUDPFromStream and WriteTo
WorkerCopyDown ==
  /\ IsWorker /\ wpc = "proxy"
  /\ IF wKind = "udp"
       THEN /\ Len(nS2C) >= 2 /\ ReadUDPFromStreamReady(nS2C, FALSE)
            /\ nS2C' = ReadUDPFromStream(nS2C).rest
       ELSE /\ nS2C # <<>>
            /\ nS2C' = Tail(nS2C)
  /\ wDown' = wDown + 1
  /\ wLog' = Append(wLog, Ev("copyDown", 0, TRUE))
  /\ UNCHANGED <<wKind, wHdr, wRaw, wpc, wAck, wLocal, wUp, nC2S, nPeerEOF, nBroken, dispVars>>
  /\ UNCHANGED sessOthers

\* the stream ends: the remote-to-local copy returns, the worker receives
\* from errorChan and returns
WorkerRemoteEOF ==
  /\ IsWorker /\ wpc = "proxy"
  /\ nS2C = <<>>
  /\ dpc = "closed" \/ nBroken
  /\ WorkerReturn(wLog)
  /\ nPeerEOF' = TRUE
  /\ UNCHANGED <<wKind, wHdr, wRaw, wAck, wUp, wDown, nC2S, nS2C, nBroken, dispVars>>
  /\ UNCHANGED sessOthers

\* a peer that is not a worker connects and sends its bytes
RawSend ==
  /\ wKind = "raw" /\ wpc = "create"
  /\ nC2S' = wRaw
  /\ wpc' = "rawSent"
  /\ dpc' = "readHdr"
  /\ UNCHANGED <<wKind, wHdr, wRaw, wLog, wAck, wLocal, wUp, wDown, nS2C, nPeerEOF, nBroken, dRes, dDial, dLog, dUp, upReply>>
  /\ UNCHANGED sessOthers

\* ... and closes its sending side
RawClose ==
  /\ wKind = "raw" /\ wpc = "rawSent"
  /\ nPeerEOF' = TRUE
  /\ wpc' = "done"
  /\ UNCHANGED <<wKind, wHdr, wRaw, wLog, wAck, wLocal, wUp, wDown, nC2S, nS2C, nBroken, dispVars>>
  /\ UNCHANGED sessOthers

\* the connection under the stream fails: later writes on it fail, later
\* reads return what was received and then an error
NetBreak ==
  /\ dpc # "idle" /\ ~nBroken
  /\ nBroken' = TRUE
  /\ UNCHANGED <<workerVars, nC2S, nS2C, nPeerEOF, dispVars>>
  /\ UNCHANGED sessOthers

\* the stream's bytes as handleConn's reads see them: what the peer sent,
\* followed by an end of stream once the peer closed or the connection broke
PeerEnded == nPeerEOF \/ nBroken

\* Header.FromReader returns once its io.ReadFull calls are served
HeaderReadReady(r, eof) ==
  \/ eof
  \/ /\ Len(r) >= 3
     /\ \/ TotalLenTooShort(Uint16(SubSeq(r, 2, 3)))
        \/ Len(r) >= Uint16(SubSeq(r, 2, 3))

\* handleConn returns: its deferred c.Close()
DispReturn(log) ==
  /\ dpc' = "closed"
  /\ dLog' = Append(log, Ev("close", 0, TRUE))

\* a dispatcher that answers a Header it cannot read with an error code
HeaderErrorReply_UnknownError == AckMarshal(AckCodeUnknownError)

\* what handleConn writes to the stream when FromReader fails: nothing
HeaderErrorReply == <<>>

\* hdr.FromReader(c)
DispReadHeader ==
  /\ dpc = "readHdr"
  /\ HeaderReadReady(nC2S, PeerEnded)
  /\ LET res == HeaderFromReader(nC2S)
     IN  /\ dRes' = res
         /\ nC2S' = Drop(nC2S, res.n)
         /\ IF res.err # ""
              THEN /\ DispReturn(Append(dLog, Ev("readHdr", res.n, FALSE)))
                   /\ nS2C' = nS2C \o HeaderErrorReply
              ELSE /\ dpc' = "switch"
                   /\ dLog' = Append(dLog, Ev("readHdr", res.n, TRUE))
                   /\ UNCHANGED nS2C
  /\ UNCHANGED <<workerVars, nPeerEOF, nBroken, dDial, dUp, upReply>>
  /\ UNCHANGED sessOthers

\* a dispatcher that dials whatever the protocol byte is
IsKnownProtocol_Any(proto) == TRUE

\* the cases of switch hdr.Protocol that dial
IsKnownProtocol(proto) == proto \in {ProtocolTCP, ProtocolUDP}

\* dialer.DialContext for the TCP and the UDP case
DispDial ==
  /\ dpc = "switch"
  /\ IsKnownProtocol(dRes.hdr.Protocol)
  /\ \E outcome \in DialOutcomes :
       /\ dDial' = outcome
       /\ dLog' = Append(dLog, Ev("dial", 0, outcome.st = "ok"))
  /\ dpc' = "ack"
  /\ UNCHANGED <<workerVars, netVars, dRes, dUp, upReply>>
  /\ UNCHANGED sessOthers

\* writeACK: c.Write of the one marshalled byte
WriteACKOk == ~nBroken

\* a dispatcher that proxies after a failed write of the Acknowledgement
AfterAckOK_IgnoreWriteError(written) == "proxy"

\* the check of writeACK's error after a successful dial
AfterAckOK(written) == IF written THEN "proxy" ELSE "closed"

\* writeACK after the dial, and the return when the dial failed or the
\* write failed
DispWriteAck ==
  /\ dpc = "ack"
  /\ LET code == IF dDial.st = "ok" THEN AckCodeOK ELSE ackCodeFromErr(dDial.err)
         log  == Append(dLog, Ev("ack", code, WriteACKOk))
     IN  /\ nS2C' = IF WriteACKOk THEN nS2C \o AckMarshal(code) ELSE nS2C
         /\ IF dDial.st = "ok" /\ AfterAckOK(WriteACKOk) = "proxy"
              THEN /\ dpc' = "proxy"
                   /\ dLog' = Append(log, Ev("proxy", 0, TRUE))
              ELSE DispReturn(log)
  /\ UNCHANGED <<workerVars, nC2S, nPeerEOF, nBroken, dRes, dDial, dUp, upReply>>
  /\ UNCHANGED sessOthers

\* the default case: writeACK(AckCodeUnknownProtocol), no dial
DispUnknownProtocol ==
  /\ dpc = "switch"
  /\ ~IsKnownProtocol(dRes.hdr.Protocol)
  /\ nS2C' = IF WriteACKOk THEN nS2C \o AckMarshal(AckCodeUnknownProtocol) ELSE nS2C
  /\ DispReturn(Append(dLog, Ev("ack", AckCodeUnknownProtocol, WriteACKOk)))
  /\ UNCHANGED <<workerVars, nC2S, nPeerEOF, nBroken, dRes, dDial, dUp, upReply>>
  /\ UNCHANGED sessOthers

\* ProxyTCP / ProxyUDP, downstream to upstream: one read from the stream
\* and its write to the upstream connection
DispRelayUp ==
  /\ dpc = "proxy"
  /\ IF dRes.hdr.Protocol = ProtocolUDP
       THEN /\ Len(nC2S) >= 2 /\ ReadUDPFromStreamReady(nC2S, FALSE)
            /\ dUp' = Append(dUp, ReadUDPFromStream(nC2S).data)
            /\ nC2S' = ReadUDPFromStream(nC2S).rest
       ELSE /\ nC2S # <<>>
            /\ dUp' = Append(dUp, <<Head(nC2S)>>)
            /\ nC2S' = Tail(nC2S)
  /\ dLog' = Append(dLog, Ev("relayUp", 0, TRUE))
  /\ UNCHANGED <<workerVars, nS2C, nPeerEOF, nBroken, dpc, dRes, dDial, upReply>>
  /\ UNCHANGED sessOthers

\* ProxyTCP / ProxyUDP, upstream to downstream: one read from the upstream
\* connection and its write to the stream
DispRelayDown ==
  /\ dpc = "proxy"
  /\ upReply > 0 /\ ~nBroken
  /\ upReply' = upReply - 1
  /\ nS2C' = nS2C \o PayloadItem(dRes.hdr.Protocol, 200 + upReply)
  /\ dLog' = Append(dLog, Ev("relayDown", 0, TRUE))
  /\ UNCHANGED <<workerVars, nC2S, nPeerEOF, nBroken, dpc, dRes, dDial, dUp>>
  /\ UNCHANGED sessOthers

\* the proxy loop returns (a side closed, an error, the idle alarm), and
\* handleConn with it
DispProxyEnd ==
  /\ dpc = "proxy"
  /\ DispReturn(dLog)
  /\ UNCHANGED <<workerVars, netVars, dRes, dDial, dUp, upReply>>
  /\ UNCHANGED sessOthers

SessNext ==
  \/ WorkerCreateStream \/ WorkerWriteHeader \/ WorkerReadAck
  \/ WorkerCopyUp \/ WorkerLocalEOF \/ WorkerCopyDown \/ WorkerRemoteEOF
  \/ RawSend \/ RawClose \/ NetBreak
  \/ DispReadHeader \/ DispDial \/ DispWriteAck \/ DispUnknownProtocol
  \/ DispRelayUp \/ DispRelayDown \/ DispProxyEnd

SpecSession == SessInit /\ [][SessNext]_vars

\* the positions of a log at which op was done (ok: with success)
At(log, op) == { i \in 1..Len(log) : log[i].op = op }

AtOk(log, op) == { i \in 1..Len(log) : log[i].op = op /\ log[i].ok }

DecodedAndReturned == dpc = "closed" /\ dRes.err = ""

\* the codes handleConn passed to writeACK, and those whose write succeeded
AckCalls == [i \in 1..Cardinality(At(dLog, "ack")) |-> dLog[CHOOSE j \in At(dLog, "ack") : Cardinality({k \in At(dLog, "ack") : k < j}) = i - 1].code]

AcksWritten == { dLog[j].code : j \in AtOk(dLog, "ack") }

ProxyRan == At(dLog, "proxy") # {}

Relayed == At(dLog, "relayUp") \cup At(dLog, "relayDown") # {}

ExpectedAck ==
  IF dRes.hdr.Protocol \notin {0, 1} THEN 6
  ELSE IF dDial.st = "ok" THEN 1
  ELSE ackCodeFromErr(dDial.err)

C3_WriteFailed ==
  /\ DecodedAndReturned
  /\ AckCalls = << AckCodeOK >>
  /\ AcksWritten = {}

\* the table of C4, case by case
C4_Table(e) ==
  CASE e.dns \in {"notfound", "notfound+timeout"} -> 3
    [] e.dns = "timeout" -> 4
    [] e.dns \in {"none", "plain"} /\ e.op /\ e.opTimeout -> 5
    [] OTHER -> 2

\* C4: ackCodeFromErr maps a dial error to 3 if it is a DNS error flagged
\* not-found, else to 4 if it is a DNS error flagged timeout, else to 5 if
\* it is an operation error that is a timeout, else to 2; never to OK.
C4_AckCodeTable ==
  (dDial.st = "err" /\ At(dLog, "ack") # {})
    => \A j \in At(dLog, "ack") :
         /\ dLog[j].code = C4_Table(dDial.err)
         /\ dLog[j].code # AckCodeOK

C4_Witness ==
  /\ dDial.st = "err"
  /\ dDial.err = [dns |-> "timeout", op |-> TRUE, opTimeout |-> TRUE]
  /\ wKind = "tcp" /\ wAck = AckCodeResolveTimeout

\* C5: when reading the Acknowledgement fails or its code is not OK, the
\* client TCP worker copies nothing between the local connection and the
\* stream, in either direction, and closes the local connection.
C5_NoCopyWithoutOK ==
  (wKind = "tcp" /\ \E k \in At(wLog, "readAck") : ~wLog[k].ok \/ wLog[k].code # AckCodeOK)
    => /\ wUp = 0 /\ wDown = 0
       /\ At(wLog, "copyUp") \cup At(wLog, "copyDown") = {}
       /\ wLocal = "closed"
       /\ wpc = "done"

C5_Witness ==
  /\ wKind = "tcp"
  /\ wAck = AckCodeNoSuchHost
  /\ wLocal = "closed"
  /\ wUp = 0 /\ wDown = 0

\* C8: for every stated total length below 12, Header.FromReader returns an
\* error after consuming only the 3 bytes of version and length, and the
\* dispatcher closes the stream without dialing and without writing an
\* Acknowledgement.
C8_ShortTotalRejected ==
  (/\ wKind = "raw" /\ Len(wRaw) >= 3 /\ Uint16(SubSeq(wRaw, 2, 3)) < 12
   /\ dpc \notin {"idle", "readHdr"})
    => /\ dRes.err = "body too short"
       /\ dRes.n = 3
       /\ nC2S = Drop(wRaw, 3)
       /\ dpc = "closed"
       /\ At(dLog, "dial") = {} /\ dDial = NoDial
       /\ At(dLog, "ack") = {}
       /\ nS2C = <<>>
       /\ ~ProxyRan /\ dUp = <<>>

C8_Witness ==
  /\ wKind = "raw"
  /\ Take(wRaw, 3) = <<0, 0, 11>>
  /\ Len(wRaw) = 12
  /\ dpc = "closed"
  /\ Len(nC2S) = 9

(***************************************************************************)
(* Forwarder machine: portForwarder.run (the TCP accept loop, the UDP      *)
(* listener loop with its conntrack table and cleaner), the resolver, the  *)
(* workers of the flows and ProxyUDP with its idle alarm on the server.    *)
(* Payload bytes are left to the session machine; here a flow is its       *)
(* destination and the positions of its goroutines.                        *)
(***************************************************************************)
MaxFlows == 2

MaxUpdates == 1

\* the sources of datagrams on the local port
Keys == {"a", "b"}

\* the IPs of the pods the selector matches over time
PodIPs == { <<10, 0, 0, 1>>, <<10, 0, 0, 2>> }

\* the zero Addr: no Header written yet
ZeroAddr == [typ |-> AddrTypeIP, data |-> <<>>]

\* Getter.Get(): the cached address
Get == rAddr

Flows == 1..Len(flows)

IsUDP(f) == flows[f].proto = ProtocolUDP

\* go handleTCPConn(c, streamConn, remoteAddr, ...) /
\* go handleUDPConn(..., remoteAddr, ...): the worker's arguments
NewFlow(k, proto) ==
  [ key |-> k, proto |-> proto,
    dst |-> Get,             \* the remoteAddr argument
    hdrDst |-> ZeroAddr,     \* Addr of the Header written to the stream
    wpc |-> "create",        \* the worker: create | hdr | ack | wait | finish | done
    wr |-> "none",           \* handleUDPConn's writer goroutine: none | run | exited
    rd |-> "none",           \* handleUDPConn's reader goroutine: none | run | exited
    ppc |-> "none",          \* the server: none | select | waitUp | waitDown | returned
    aDone |-> FALSE,         \* ProxyUDP's alarm has fired
    bDown |-> "none",        \* ProxyUDP's downstream broker: none | run | exited
    bUp |-> "none" ]         \* ProxyUDP's upstream broker: none | run | exited

FwdInit ==
  /\ AlarmIdle
  /\ AcceptedIdle
  /\ PickIdle
  /\ LoopIdle
  /\ ConnIdle
  /\ PudpIdle
  /\ UdpIdle
  /\ AddrIdle
  /\ TargetsIdle
  /\ PortsIdle
  /\ TcpIdle
  /\ RunIdle
  /\ SocksIdle
  /\ ErrIdle
  /\ ResIdle
  /\ CodecIdle /\ FrameIdle /\ SessIdle
  /\ pKind \in {"tcp", "udp"}
  /\ rAddr \in { AddrFromBytes(AddrTypeIP, b) : b \in PodIPs }
  /\ rUpd = 0
  /\ flows = <<>>
  /\ track = [k \in Keys |-> 0]
  /\ lpc = "read" /\ lCh = 0
  /\ cpc = "recv" /\ cKey = "none"

\* dynamicAddr.updatePodIP after the pod was replaced: the newest running
\* pod's IP becomes the address
ResolverUpdate ==
  /\ pKind # "none"
  /\ rUpd < MaxUpdates
  /\ \E b \in PodIPs :
       /\ AddrFromBytes(AddrTypeIP, b) # rAddr
       /\ rAddr' = AddrFromBytes(AddrTypeIP, b)
  /\ rUpd' = rUpd + 1
  /\ UNCHANGED <<pKind, flows, track, lpc, lCh, cpc, cKey>>
  /\ UNCHANGED fwdOthers

\* the TCP loop: Accept, addrGetter.Get(), go handleTCPConn
ListenerAccept ==
  /\ pKind = "tcp" /\ lpc = "read"
  /\ Len(flows) < MaxFlows
  /\ flows' = Append(flows, NewFlow("conn", ProtocolTCP))
  /\ UNCHANGED <<pKind, rAddr, rUpd, track, lpc, lCh, cpc, cKey>>
  /\ UNCHANGED fwdOthers

\* the flow behind a conntrack entry has ended by its idle timeout
Expired(f) == flows[f].aDone /\ flows[f].ppc = "returned"

\* the UDP loop up to the send: ReadFrom, track.Get and, for a key without
\* entry, make(chan), track.Set, addrGetter.Get(), go handleUDPConn
ListenerReadFrom ==
  /\ pKind = "udp" /\ lpc = "read"
  /\ \E k \in Keys :
       IF track[k] = 0
         THEN /\ Len(flows) < MaxFlows
              /\ flows' = Append(flows, NewFlow(k, ProtocolUDP))
              /\ track' = [track EXCEPT ![k] = Len(flows) + 1]
              /\ lCh' = Len(flows) + 1
         ELSE /\ lCh' = track[k]
              /\ UNCHANGED <<flows, track>>
  /\ lpc' = "send"
  /\ UNCHANGED <<pKind, rAddr, rUpd, cpc, cKey>>
  /\ UNCHANGED fwdOthers

\* dataCh <- data: the channel is unbuffered, the send completes when the
\* flow's writer goroutine receives; the writer's WriteFull may fail once
\* the server closed the stream, and the writer returns
ListenerSend ==
  /\ lpc = "send"
  /\ flows[lCh].wr = "run"
  /\ \E w \in (IF flows[lCh].ppc = "returned" THEN {"run", "exited"} ELSE {"run"}) :
       flows' = [flows EXCEPT ![lCh].wr = w]
  /\ lpc' = "read"
  /\ UNCHANGED <<pKind, rAddr, rUpd, track, lCh, cpc, cKey>>
  /\ UNCHANGED fwdOthers

\* the worker returns: handleUDPConn's deferred finish <- key blocks until
\* the cleaner receives; handleTCPConn just returns
WorkerEnd(f) == IF IsUDP(f) THEN "finish" ELSE "done"

\* createStream
FlowCreateStream(f) ==
  /\ flows[f].wpc = "create"
  /\ \/ flows' = [flows EXCEPT ![f].wpc = "hdr"]
     \/ flows' = [flows EXCEPT ![f].wpc = WorkerEnd(f)]
  /\ UNCHANGED <<pKind, rAddr, rUpd, track, lpc, lCh, cpc, cKey>>
  /\ UNCHANGED fwdOthers

\* a worker that asks the resolver when it writes the Header
FlowHeaderDst_Lazy(f) == Get

\* hdr.Addr: the address the worker was started with
FlowHeaderDst(f) == flows[f].dst

\* xio.WriteFull(dataStream, hdr.Marshal())
FlowWriteHeader(f) ==
  /\ flows[f].wpc = "hdr"
  /\ \/ flows' = [flows EXCEPT ![f].wpc = "ack", ![f].hdrDst = FlowHeaderDst(f)]
     \/ flows' = [flows EXCEPT ![f].wpc = WorkerEnd(f)]
  /\ UNCHANGED <<pKind, rAddr, rUpd, track, lpc, lCh, cpc, cKey>>
  /\ UNCHANGED fwdOthers

\* handleConn dials and acknowledges, the worker reads the Acknowledgement:
\* with OK the proxy loop and the worker's goroutines start, otherwise
\* handleConn and the worker return
FlowReadAck(f) ==
  /\ flows[f].wpc = "ack"
  /\ \/ flows' = [flows EXCEPT ![f].wpc = "wait", ![f].ppc = "select",
                               ![f].wr = IF IsUDP(f) THEN "run" ELSE "none",
                               ![f].rd = IF IsUDP(f) THEN "run" ELSE "none",
                               ![f].bDown = IF IsUDP(f) THEN "run" ELSE "none",
                               ![f].bUp = IF IsUDP(f) THEN "run" ELSE "none"]
     \/ flows' = [flows EXCEPT ![f].wpc = WorkerEnd(f), ![f].ppc = "returned"]
  /\ UNCHANGED <<pKind, rAddr, rUpd, track, lpc, lCh, cpc, cKey>>
  /\ UNCHANGED fwdOthers

\* the flow carries nothing: the listener holds no datagram for it
Idle(f) == ~(lpc = "send" /\ lCh = f)

\* Alarm.Start's goroutine: the timer fires after the idle timeout without
\* a Reset, and done is closed
AlarmFire(f) ==
  /\ IsUDP(f) /\ flows[f].ppc = "select"
  /\ flows[f].bDown = "run" /\ flows[f].bUp = "run"
  /\ ~flows[f].aDone
  /\ Idle(f)
  /\ flows' = [flows EXCEPT ![f].aDone = TRUE]
  /\ UNCHANGED <<pKind, rAddr, rUpd, track, lpc, lCh, cpc, cKey>>
  /\ UNCHANGED fwdOthers

\* a broker that goes on after every timeout, whatever the alarm says
BrokerContinues_IgnoresAlarm(timedOut, done) == timedOut

\* a broker's read times out after 5 s: it goes on unless the alarm is done
BrokerContinues(timedOut, done) == timedOut /\ ~done

\* the first broker to leave its loop: its read timed out with the alarm done
BrokerTimeout(f) ==
  /\ IsUDP(f) /\ flows[f].ppc = "select"
  /\ flows[f].bDown = "run" /\ flows[f].bUp = "run"
  /\ ~BrokerContinues(TRUE, flows[f].aDone)
  /\ \/ flows' = [flows EXCEPT ![f].bDown = "exited"]
     \/ flows' = [flows EXCEPT ![f].bUp = "exited"]
  /\ UNCHANGED <<pKind, rAddr, rUpd, track, lpc, lCh, cpc, cKey>>
  /\ UNCHANGED fwdOthers

\* ProxyUDP's select sees a broker gone, closes the other broker's
\* connection and waits for that broker, whose read fails; ProxyUDP returns,
\* handleConn returns and closes the stream
ProxyReturn(f) ==
  /\ IsUDP(f) /\ flows[f].ppc = "select"
  /\ flows[f].bDown = "exited" \/ flows[f].bUp = "exited"
  /\ flows' = [flows EXCEPT ![f].ppc = "returned", ![f].bDown = "exited", ![f].bUp = "exited"]
  /\ UNCHANGED <<pKind, rAddr, rUpd, track, lpc, lCh, cpc, cKey>>
  /\ UNCHANGED fwdOthers

\* ProxyTCP returns when the peers are done
TCPProxyReturn(f) ==
  /\ ~IsUDP(f) /\ flows[f].ppc = "select"
  /\ flows' = [flows EXCEPT ![f].ppc = "returned"]
  /\ UNCHANGED <<pKind, rAddr, rUpd, track, lpc, lCh, cpc, cKey>>
  /\ UNCHANGED fwdOthers

\* handleUDPConn's reader goroutine: ReadUDPFromStream fails on the closed
\* stream, the goroutine returns and its deferred close(upClosed) runs
FlowReaderExit(f) ==
  /\ flows[f].rd = "run" /\ flows[f].ppc = "returned"
  /\ flows' = [flows EXCEPT ![f].rd = "exited"]
  /\ UNCHANGED <<pKind, rAddr, rUpd, track, lpc, lCh, cpc, cKey>>
  /\ UNCHANGED fwdOthers

\* handleUDPConn's writer goroutine: case <-upClosed: return
FlowWriterExit(f) ==
  /\ flows[f].wr = "run" /\ flows[f].rd = "exited"
  /\ flows' = [flows EXCEPT ![f].wr = "exited"]
  /\ UNCHANGED <<pKind, rAddr, rUpd, track, lpc, lCh, cpc, cKey>>
  /\ UNCHANGED fwdOthers

\* err = <-errorChan: the error stream ends with the server's connection,
\* and the worker returns
FlowErrorChan(f) ==
  /\ flows[f].wpc = "wait" /\ flows[f].ppc = "returned"
  /\ flows' = [flows EXCEPT ![f].wpc = WorkerEnd(f)]
  /\ UNCHANGED <<pKind, rAddr, rUpd, track, lpc, lCh, cpc, cKey>>
  /\ UNCHANGED fwdOthers

\* for key := range finish: the cleaner receives a worker's key
CleanerRecv(f) ==
  /\ cpc = "recv" /\ flows[f].wpc = "finish"
  /\ flows' = [flows EXCEPT ![f].wpc = "done"]
  /\ cKey' = flows[f].key
  /\ cpc' = "del"
  /\ UNCHANGED <<pKind, rAddr, rUpd, track, lpc, lCh>>
  /\ UNCHANGED fwdOthers

\* track.Delete(key)
CleanerDelete ==
  /\ cpc = "del"
  /\ track' = [track EXCEPT ![cKey] = 0]
  /\ cpc' = "recv"
  /\ cKey' = "none"
  /\ UNCHANGED <<pKind, rAddr, rUpd, flows, lpc, lCh>>
  /\ UNCHANGED fwdOthers

FwdNext ==
  \/ ResolverUpdate \/ ListenerAccept \/ ListenerReadFrom \/ ListenerSend
  \/ CleanerDelete
  \/ \E f \in Flows : FlowCreateStream(f)
  \/ \E f \in Flows : FlowWriteHeader(f)
  \/ \E f \in Flows : FlowReadAck(f)
  \/ \E f \in Flows : AlarmFire(f)
  \/ \E f \in Flows : BrokerTimeout(f)
  \/ \E f \in Flows : ProxyReturn(f)
  \/ \E f \in Flows : TCPProxyReturn(f)
  \/ \E f \in Flows : FlowReaderExit(f)
  \/ \E f \in Flows : FlowWriterExit(f)
  \/ \E f \in Flows : FlowErrorChan(f)
  \/ \E f \in Flows : CleanerRecv(f)

SpecFwd == FwdInit /\ [][FwdNext]_vars

\* C2: a flow's destination is what the resolver's Get() returns when the
\* flow is created (a TCP accept, the first datagram of a new UDP source);
\* no later step, a change of the resolver's address included, changes it,
\* the Header the worker writes carries it, and a flow created after a
\* change gets the new address.
C2_DestinationSampledOnce ==
  [][ /\ \A f \in Flows : flows'[f].dst = flows[f].dst
      /\ \A f \in Flows :
           flows'[f].hdrDst # flows[f].hdrDst
             => flows[f].hdrDst = ZeroAddr /\ flows'[f].hdrDst = flows[f].dst
      /\ Len(flows') >= Len(flows)
      /\ Len(flows') > Len(flows)
           => /\ Len(flows') = Len(flows) + 1
              /\ flows'[Len(flows')].dst = rAddr
              /\ rAddr' = rAddr ]_vars

C2_Witness ==
  /\ Len(flows) = 2
  /\ rUpd = 1
  /\ flows[1].wpc = "wait" /\ flows[1].ppc = "select"
  /\ flows[1].hdrDst # ZeroAddr /\ flows[1].hdrDst # rAddr
  /\ flows[2].hdrDst = rAddr

\* C10, its last part as a state predicate: a datagram the listener reads
\* from a source whose flow has ended by its idle timeout starts a new flow;
\* the listener is never left sending it on the channel of the expired
\* flow, from which no goroutine receives any more.
C10_DatagramAfterExpiryStartsNewFlow ==
  lpc = "send" => ~(Expired(lCh) /\ flows[lCh].wr = "exited")

\* the course of events C10 describes: the flow of a source expired, its
\* entry was removed, and a later datagram of the source made a new flow
C10_FreshFlow ==
  \E f, g \in Flows :
    /\ f < g /\ flows[f].key = flows[g].key
    /\ Expired(f) /\ flows[f].wpc = "done"
    /\ track[flows[g].key] = g
    /\ flows[g].wpc = "wait" /\ lpc = "read"

(***************************************************************************)
(* Resolver machine: remoteaddr.NewDynamicAddr, dynamicAddr.Get,           *)
(* watchForUpdates and updatePodIP, with the pods the selector matches.    *)
(***************************************************************************)
MaxChanges == 3

\* the retry budget of one minute at one attempt per two seconds, as a
\* number of attempts
PollAttempts == 2

PodNames == {"p1", "p2"}

\* pod.Status.PodIP
PodIPOf(p) == IF p = "p1" THEN "10.0.0.1" ELSE "fd00::2"

\* net.ParseIP: the 16-byte form of the address, nil for text that is none
ParseIP(str) ==
  CASE str = "10.0.0.1" -> Zeros(10) \o <<255, 255, 10, 0, 0, 1>>
    [] str = "fd00::2" -> <<253, 0>> \o Zeros(13) \o <<2>>
    [] str = "192.168.1.1" -> Zeros(10) \o <<255, 255, 192, 168, 1, 1>>
    [] str = "::ffff:10.0.0.1" -> Zeros(10) \o <<255, 255, 10, 0, 0, 1>>
    [] str = "fd00:0::2" -> <<253, 0>> \o Zeros(13) \o <<2>>
    [] str = "ff02::1" -> <<255, 2>> \o Zeros(13) \o <<1>>
    [] str = "::1" -> Zeros(15) \o <<1>>
    [] OTHER -> <<>>

\* net.IP.To4: the 4-byte form of an IPv4 address, nil for any other
To4(ip) ==
  IF Len(ip) = 4 THEN ip
  ELSE IF Len(ip) = 16 /\ SubSeq(ip, 1, 10) = Zeros(10) /\ ip[11] = 255 /\ ip[12] = 255
         THEN SubSeq(ip, 13, 16)
         ELSE <<>>

\* xnet.AddrFromIP
AddrFromIP(str) ==
  LET ip == ParseIP(str)
  IN  IF ip = <<>> THEN [addr |-> [typ |-> 0, data |-> <<>>], err |-> "invalid ip"]
      ELSE [addr |-> [typ |-> AddrTypeIP, data |-> IF To4(ip) # <<>> THEN To4(ip) ELSE ip], err |-> ""]

\* pod.Status.Phase and pod.DeletionTimestamp of a pod in the given state
PhaseOf(st) == IF st = "Terminating" THEN "Running" ELSE st

HasDeletionTimestamp(st) == st = "Terminating"

\* updatePodIP's choice: the pods are sorted newest first and the first one
\* whose phase is Running is taken (any of them when timestamps are equal)
PodsToPick(pods, created) ==
  { p \in PodNames : PhaseOf(pods[p]) = "Running"
      /\ \A q \in PodNames : PhaseOf(pods[q]) = "Running" => created[q] <= created[p] }

\* a Get() that refuses to answer while the address is being updated
dynamicAddrGet_Busy == [addr |-> aAddr, err |-> IF aState = "poll" THEN "updating" ELSE ""]

\* dynamicAddr.Get
dynamicAddrGet == [addr |-> aAddr, err |-> ""]

NoPick == [name |-> "", st |-> "Absent"]

ResInit ==
  /\ AlarmIdle
  /\ AcceptedIdle
  /\ PickIdle
  /\ LoopIdle
  /\ ConnIdle
  /\ PudpIdle
  /\ UdpIdle
  /\ AddrIdle
  /\ TargetsIdle
  /\ PortsIdle
  /\ TcpIdle
  /\ RunIdle
  /\ SocksIdle
  /\ ErrIdle
  /\ CodecIdle /\ FrameIdle /\ FwdIdle /\ SessIdle
  /\ kPods \in [PodNames -> {"Absent", "Pending", "Running"}]
  /\ kCreated \in [PodNames -> 1..2]
  /\ kEv = <<>> /\ kChg = 0
  /\ aState = "new" /\ aPodName = "" /\ aAddr = [typ |-> 0, data |-> <<>>] /\ aPoll = 0
  /\ aOut = "none" /\ aGood = [typ |-> 0, data |-> <<>>] /\ aPick = NoPick
  /\ aListed = FALSE
  /\ gRes = [n |-> 0, addr |-> [typ |-> 0, data |-> <<>>], err |-> "", want |-> [typ |-> 0, data |-> <<>>]]

\* updatePodIP stores the pod it chose
StorePod(p) ==
  /\ aPodName' = p
  /\ aAddr' = AddrFromIP(PodIPOf(p)).addr
  /\ aGood' = AddrFromIP(PodIPOf(p)).addr
  /\ aPick' = [name |-> p, st |-> kPods[p]]

\* NewDynamicAddr: init's updatePodIP (the List may fail, there may be no
\* Running pod) and NewRetryWatcher (may fail); on any error no resolver is
\* returned
NewDynamicAddr ==
  /\ aState = "new"
  /\ \E listOK \in BOOLEAN, watchOK \in BOOLEAN :
       IF listOK /\ PodsToPick(kPods, kCreated) # {}
         THEN /\ \E p \in PodsToPick(kPods, kCreated) : StorePod(p)
              /\ aState' = IF watchOK THEN "watch" ELSE "failed"
         ELSE /\ aState' = "failed"
              /\ UNCHANGED <<aPodName, aAddr, aGood, aPick>>
  /\ UNCHANGED <<kPods, kCreated, kEv, kChg, aPoll, aOut, aListed, gRes>>
  /\ UNCHANGED resOthers

\* the states a pod can go to, with the watch event of the step
PodSteps(st) ==
  CASE st = "Absent" -> { [to |-> "Pending", type |-> "ADDED"] }
    [] st = "Pending" -> { [to |-> "Running", type |-> "MODIFIED"], [to |-> "Absent", type |-> "DELETED"] }
    [] st = "Running" -> { [to |-> "Terminating", type |-> "MODIFIED"], [to |-> "Failed", type |-> "MODIFIED"],
                           [to |-> "Running", type |-> "MODIFIED"], [to |-> "Absent", type |-> "DELETED"] }
    [] st = "Terminating" -> { [to |-> "Absent", type |-> "DELETED"] }
    [] OTHER -> { [to |-> "Absent", type |-> "DELETED"] }

\* a pod changes and the watcher gets the event; a DELETED event shows the
\* pod as it was last
ClusterChange ==
  /\ aState \in {"watch", "poll"}
  /\ kChg < MaxChanges
  /\ \E p \in PodNames : \E step \in PodSteps(kPods[p]) :
       /\ kPods' = [kPods EXCEPT ![p] = step.to]
       /\ kEv' = Append(kEv, [type |-> step.type, name |-> p,
                              st |-> IF step.type = "DELETED" THEN kPods[p] ELSE step.to])
  /\ kChg' = kChg + 1
  /\ UNCHANGED <<kCreated, aState, aPodName, aAddr, aPoll, aOut, aGood, aPick, aListed, gRes>>
  /\ UNCHANGED resOthers

\* the watch delivers an event that is about no pod: a bookmark, whose object
\* carries a resource version only, or an error, whose object is a Status
WatchOtherEvent ==
  /\ aState \in {"watch", "poll"}
  /\ kChg < MaxChanges
  /\ \E t \in {"BOOKMARK", "ERROR"} :
       kEv' = Append(kEv, [type |-> t, name |-> "", st |-> "Absent"])
  /\ kChg' = kChg + 1
  /\ UNCHANGED <<kPods, kCreated, aState, aPodName, aAddr, aPoll, aOut, aGood, aPick, aListed, gRes>>
  /\ UNCHANGED resOthers

\* a watcher that lets the events of every pod through
IgnoreEvent_NoNameCheck(ev, tracked) ==
  \/ ev.type \in {"BOOKMARK", "ERROR"}
  \/ ev.type = "MODIFIED" /\ ~HasDeletionTimestamp(ev.st) /\ PhaseOf(ev.st) = "Running"

\* a watcher that only reacts to DELETED events
IgnoreEvent_UnlessDeleted(ev, tracked) == ev.type # "DELETED" \/ ev.name # tracked

\* watchForUpdates: the events it does nothing about
IgnoreEvent(ev, tracked) ==
  \/ ev.type \in {"BOOKMARK", "ERROR"}
  \/ ev.name # tracked
  \/ ev.type = "MODIFIED" /\ ~HasDeletionTimestamp(ev.st) /\ PhaseOf(ev.st) = "Running"

\* for ev := range w.ResultChan(): one event is received
WatchRecv ==
  /\ aState = "watch" /\ kEv # <<>>
  /\ kEv' = Tail(kEv)
  /\ IF IgnoreEvent(Head(kEv), aPodName)
       THEN UNCHANGED <<aState, aPoll, aListed>>
       ELSE aState' = "poll" /\ aPoll' = PollAttempts /\ aListed' = FALSE
  /\ UNCHANGED <<kPods, kCreated, kChg, aPodName, aAddr, aOut, aGood, aPick, gRes>>
  /\ UNCHANGED resOthers

\* one attempt of PollUntilContextTimeout: updatePodIP succeeds and the
\* loop ends, or it fails and the loop goes on until the budget is used up
PollAttempt ==
  /\ aState = "poll"
  /\ \E listOK \in BOOLEAN :
       IF listOK /\ PodsToPick(kPods, kCreated) # {}
         THEN /\ \E p \in PodsToPick(kPods, kCreated) : StorePod(p)
              /\ aListed' = TRUE
              /\ aState' = "watch" /\ aOut' = "updated" /\ aPoll' = 0
         ELSE /\ aPoll' = aPoll - 1
              /\ IF aPoll = 1
                   THEN aState' = "watch" /\ aOut' = "timeout"
                   ELSE UNCHANGED <<aState, aOut>>
              /\ UNCHANGED <<aPodName, aAddr, aGood, aPick, aListed>>
  /\ UNCHANGED <<kPods, kCreated, kEv, kChg, gRes>>
  /\ UNCHANGED resOthers

\* a forwarder calls Get()
ResolverGet ==
  /\ aState \in {"watch", "poll"}
  /\ gRes' = [n |-> 1, addr |-> dynamicAddrGet.addr, err |-> dynamicAddrGet.err, want |-> aGood]
  /\ UNCHANGED <<kPods, kCreated, kEv, kChg, aState, aPodName, aAddr, aPoll, aOut, aGood, aPick, aListed>>
  /\ UNCHANGED resOthers

ResNext == NewDynamicAddr \/ ClusterChange \/ WatchRecv \/ PollAttempt \/ ResolverGet

SpecRes == ResInit /\ [][ResNext]_vars

\* the watcher goroutine keeps running: it takes the next event, and the
\* retry loop makes its next attempt
SpecResFair == SpecRes /\ WF_vars(WatchRecv) /\ WF_vars(PollAttempt)

\* C11: NewDynamicAddr returns an error and no resolver when no matching
\* pod is Running at construction; once it has succeeded, every Get()
\* returns a nil error and the address stored by the most recent successful
\* update, also during a retry loop and after a retry loop ran out.
C11_GetNeverFailsAfterInit ==
  /\ (aState # "new" /\ kChg = 0 /\ \A p \in PodNames : kPods[p] # "Running")
       => aState = "failed"
  /\ aState = "failed" => gRes.n = 0
  /\ gRes.n > 0 => gRes.err = "" /\ gRes.addr = gRes.want
  /\ aState \in {"watch", "poll"}
       => /\ dynamicAddrGet.err = ""
          /\ dynamicAddrGet.addr = aGood
          /\ aGood = AddrFromIP(PodIPOf(aPick.name)).addr

C11_Witness ==
  /\ aState = "poll" /\ aOut = "timeout"
  /\ gRes.n = 1 /\ gRes.addr = aGood /\ gRes.addr.data = <<10, 0, 0, 1>>
  /\ \A p \in PodNames : kPods[p] # "Running"

\* the events C12 speaks of: DELETED for the tracked pod, or MODIFIED showing
\* it with a deletion timestamp or a phase other than Running
UpdateTrigger(ev) ==
  /\ ev.name = aPodName
  /\ \/ ev.type = "DELETED"
     \/ ev.type = "MODIFIED" /\ ev.st \in {"Terminating", "Pending", "Failed"}

\* the retry loop ended with a pod that was Running when listed, which is
\* now the tracked pod and whose address Get() returns
UpdatedToRunningPod ==
  /\ aOut = "updated" /\ aListed
  /\ aPick.name = aPodName
  /\ PhaseOf(aPick.st) = "Running"
  /\ dynamicAddrGet = [addr |-> AddrFromIP(PodIPOf(aPodName)).addr, err |-> ""]

\* C12: after the watcher delivers a DELETED event for the tracked pod, or a
\* MODIFIED event showing it with a deletion timestamp or not Running, the
\* retry loop starts, and it ends either with Get() returning the address of
\* a pod that was Running when listed and is now the tracked pod, or with
\* the budget used up without any List having shown a Running pod.
C12_UpdateAfterTrackedPodGone ==
  /\ (aState = "watch" /\ kEv # <<>> /\ UpdateTrigger(Head(kEv))) ~> (aState = "poll")
  /\ (aState = "poll") ~> (aState = "watch" /\ (UpdatedToRunningPod \/ (aOut = "timeout" /\ ~aListed)))

C12_Witness ==
  /\ kChg = 1 /\ kPods["p1"] = "Failed"
  /\ aState = "watch" /\ UpdatedToRunningPod
  /\ aPodName = "p2" /\ dynamicAddrGet.addr.data = ParseIP("fd00::2")

\* the resolver with a watch that also delivers bookmarks and errors
WatchNext == ResNext \/ WatchOtherEvent

SpecWatch == ResInit /\ [][WatchNext]_vars

\* the events C34 speaks of: a bookmark or an error, an event about a pod
\* other than the tracked one, a MODIFIED event showing the tracked pod
\* Running without a deletion timestamp
QuietEvent(ev) ==
  \/ ev.type \in {"BOOKMARK", "ERROR"}
  \/ ev.name # aPodName
  \/ ev.type = "MODIFIED" /\ ev.name = aPodName /\ ev.st = "Running"

\* C34: watchForUpdates leaves the cached (podName, address) unchanged for
\* Bookmark and Error events, for every event about a pod other than the
\* tracked one, a newer pod becoming Running included, and for a Modified
\* event of the tracked pod that is still Running with no deletion
\* timestamp: the watcher takes the event and starts no update.
C34_QuietEventsChangeNothing ==
  [][(aState = "watch" /\ kEv # <<>> /\ kEv' = Tail(kEv) /\ QuietEvent(Head(kEv)))
       => /\ aState' = "watch"
          /\ UNCHANGED <<aPodName, aAddr, aPoll, aOut, aListed>>]_vars

\* the tracked pod p1 is the older one; p2 became Running after it and the
\* watcher has taken the three events that followed: p1 is still the
\* tracked pod and no update was made
C34_Witness ==
  /\ aState = "watch" /\ kEv = <<>> /\ kChg = 3 /\ aOut = "none"
  /\ aPodName = "p1" /\ aAddr.data = <<10, 0, 0, 1>>
  /\ kPods["p1"] = "Running" /\ kPods["p2"] = "Running"
  /\ kCreated["p1"] = 1 /\ kCreated["p2"] = 2

\* a bookmark or an error was taken without an update
C34_BookmarkIgnored ==
  /\ aState = "watch" /\ kEv = <<>> /\ kChg = 1 /\ aOut = "none"
  /\ \A p \in PodNames : kPods[p] \in {"Running", "Absent"}
  /\ aPodName = "p2"

(***************************************************************************)
(* Error-stream machine: the streams of one tunnel connection, each with   *)
(* the worker that owns it (handleTCPConn) and the goroutine createStream  *)
(* starts to read the stream's error stream.                               *)
(***************************************************************************)
MaxStreams == 2

Streams == 1..MaxStreams

\* filepath.Match("*network namespace for sandbox * is closed", errMsg)
MatchesSandboxClosed(msg) == msg = "sandbox"

\* what io.ReadAll(errStream) can return: nothing, a text that matches the
\* pattern or one that does not, or a read error
ErrStreamEnds == {"empty", "text", "sandbox", "readerr"}

\* a goroutine that sends an error whatever the error stream carried
SendsError_Always(msg) == TRUE

\* the cases of the goroutine's switch that send on errCh
SendsError(msg) == msg \in {"text", "sandbox", "readerr"}

ErrInit ==
  /\ AlarmIdle
  /\ AcceptedIdle
  /\ PickIdle
  /\ LoopIdle
  /\ ConnIdle
  /\ PudpIdle
  /\ UdpIdle
  /\ AddrIdle
  /\ TargetsIdle
  /\ PortsIdle
  /\ TcpIdle
  /\ RunIdle
  /\ SocksIdle
  /\ CodecIdle /\ FrameIdle /\ FwdIdle /\ ResIdle /\ SessIdle
  /\ eW = [s \in Streams |-> "start"]
  /\ eG = [s \in Streams |-> "none"]
  /\ eMsg = [s \in Streams |-> "pending"]
  /\ eCh = [s \in Streams |-> "none"]
  /\ eGot = [s \in Streams |-> "none"]
  /\ eClosed = FALSE

\* handleTCPConn calls createStream: on a closed connection, or when
\* CreateStream fails for the error or the data stream, the worker returns;
\* else errCh is made and the goroutine started
OwnerCreateStream(s) ==
  /\ eW[s] = "start"
  /\ \E ok \in IF eClosed THEN {FALSE} ELSE BOOLEAN :
       IF ok
         THEN /\ eW' = [eW EXCEPT ![s] = "hdr"]
              /\ eG' = [eG EXCEPT ![s] = "read"]
              /\ eCh' = [eCh EXCEPT ![s] = "open"]
         ELSE /\ eW' = [eW EXCEPT ![s] = "returned"]
              /\ UNCHANGED <<eG, eCh>>
  /\ UNCHANGED <<eMsg, eGot, eClosed>>
  /\ UNCHANGED errOthers

\* xio.WriteFull(dataStream, hdr.Marshal()): the worker returns on an error
OwnerHeader(s) ==
  /\ eW[s] = "hdr"
  /\ \E ok \in BOOLEAN : eW' = [eW EXCEPT ![s] = IF ok THEN "ack" ELSE "returned"]
  /\ UNCHANGED <<eG, eMsg, eCh, eGot, eClosed>>
  /\ UNCHANGED errOthers

\* ack.FromReader(dataStream): the worker returns on an error and on a code
\* other than OK
OwnerAck(s) ==
  /\ eW[s] = "ack"
  /\ \E res \in {"ok", "error", "refused"} :
       eW' = [eW EXCEPT ![s] = IF res = "ok" THEN "proxy" ELSE "returned"]
  /\ UNCHANGED <<eG, eMsg, eCh, eGot, eClosed>>
  /\ UNCHANGED errOthers

\* the select on remoteDone and localError returns
OwnerCopyDone(s) ==
  /\ eW[s] = "proxy"
  /\ eW' = [eW EXCEPT ![s] = "recv"]
  /\ UNCHANGED <<eG, eMsg, eCh, eGot, eClosed>>
  /\ UNCHANGED errOthers

\* io.ReadAll(errStream) returns
ErrStreamEnd(s) ==
  /\ eG[s] = "read"
  /\ \E m \in ErrStreamEnds :
       /\ eMsg' = [eMsg EXCEPT ![s] = m]
       /\ eG' = [eG EXCEPT ![s] = IF SendsError(m) THEN "send" ELSE "close"]
  /\ UNCHANGED <<eW, eCh, eGot, eClosed>>
  /\ UNCHANGED errOthers

\* the worker is at err = <-errorChan
Receiving(s) == eW[s] = "recv"

\* errCh <- err on the unbuffered channel: the send and the worker's
\* receive happen together
ErrChanSend(s) ==
  /\ eG[s] = "send" /\ Receiving(s)
  /\ eG' = [eG EXCEPT ![s] = "close"]
  /\ eW' = [eW EXCEPT ![s] = "returned"]
  /\ eGot' = [eGot EXCEPT ![s] = "error"]
  /\ UNCHANGED <<eMsg, eCh, eClosed>>
  /\ UNCHANGED errOthers

\* close(errCh)
ErrChanClose(s) ==
  /\ eG[s] = "close"
  /\ eCh' = [eCh EXCEPT ![s] = "closed"]
  /\ eG' = [eG EXCEPT ![s] = "check"]
  /\ UNCHANGED <<eW, eMsg, eGot, eClosed>>
  /\ UNCHANGED errOthers

\* err = <-errorChan on the closed channel yields nil
OwnerRecvClosed(s) ==
  /\ eW[s] = "recv" /\ eCh[s] = "closed"
  /\ eW' = [eW EXCEPT ![s] = "returned"]
  /\ eGot' = [eGot EXCEPT ![s] = "nil"]
  /\ UNCHANGED <<eG, eMsg, eCh, eClosed>>
  /\ UNCHANGED errOthers

\* the check for a corrupted connection: c.Close() when the text matches
SandboxCheck(s) ==
  /\ eG[s] = "check"
  /\ eClosed' = (eClosed \/ MatchesSandboxClosed(eMsg[s]))
  /\ eG' = [eG EXCEPT ![s] = "done"]
  /\ UNCHANGED <<eW, eMsg, eCh, eGot>>
  /\ UNCHANGED errOthers

ErrNext ==
  \/ \E s \in Streams : OwnerCreateStream(s)
  \/ \E s \in Streams : OwnerHeader(s)
  \/ \E s \in Streams : OwnerAck(s)
  \/ \E s \in Streams : OwnerCopyDone(s)
  \/ \E s \in Streams : ErrStreamEnd(s)
  \/ \E s \in Streams : ErrChanSend(s)
  \/ \E s \in Streams : ErrChanClose(s)
  \/ \E s \in Streams : OwnerRecvClosed(s)
  \/ \E s \in Streams : SandboxCheck(s)

SpecErr == ErrInit /\ [][ErrNext]_vars

\* every worker and every goroutine keeps running while it can take a step
SpecErrFair == SpecErr /\ WF_vars(ErrNext)

\* C13: whenever the error stream of a stream ends with text matching the
\* sandbox-closed pattern, the tunnel connection is eventually closed,
\* whatever exit path the stream's worker took.
C13_SandboxTextClosesTunnel ==
  \A s \in Streams : (eMsg[s] = "sandbox") ~> eClosed

\* the worker reached <-errorChan: the text was delivered and the tunnel
\* closed
C13_ClosedWhenWorkerReceives ==
  \E s \in Streams :
    /\ eMsg[s] = "sandbox" /\ eGot[s] = "error" /\ eW[s] = "returned"
    /\ eG[s] = "done" /\ eClosed

\* the worker returned early: the goroutine stays at its send
C13_StuckAtSend ==
  \E s \in Streams :
    /\ eMsg[s] = "sandbox" /\ eG[s] = "send"
    /\ eW[s] = "returned" /\ eGot[s] = "none"
    /\ \A t \in Streams : eW[t] = "returned" /\ eG[t] \in {"none", "send", "done"}
    /\ ~eClosed

\* C35: for every stream that createStream returned, a worker that
\* receives from the error channel gets exactly one value: the forwarding
\* error if the error stream carried text or its read failed, nil
\* otherwise; the goroutine sends at most one value and then closes the
\* channel. (A worker at its receive is never left waiting: the goroutine
\* still reads the error stream, or its send, its close or the receive
\* from the closed channel can happen.)
C35_ExactlyOneValue ==
  /\ [](\A s \in Streams :
          /\ eGot[s] = "error" => eMsg[s] \in {"text", "sandbox", "readerr"}
          /\ eGot[s] = "nil" => (eMsg[s] = "empty" /\ eCh[s] = "closed")
          /\ eGot[s] # "none" => eW[s] = "returned"
          /\ eCh[s] = "closed" => (eMsg[s] = "empty" <=> eGot[s] # "error"))
  /\ [][\A s \in Streams :
          /\ eGot'[s] # eGot[s] => (eGot[s] = "none" /\ eW[s] = "recv" /\ eCh[s] # "none")
          /\ eCh'[s] # eCh[s] => (eCh[s] = "none" \/ (eCh[s] = "open" /\ eCh'[s] = "closed"))]_vars
  /\ [](\A s \in Streams :
          eW[s] = "recv" => ENABLED (ErrStreamEnd(s) \/ ErrChanSend(s) \/ ErrChanClose(s)
                                       \/ OwnerRecvClosed(s)))

\* one worker got the error of a failed read, the other nil from the
\* closed channel; both channels are closed
C35_Witness ==
  /\ eMsg[1] = "readerr" /\ eGot[1] = "error" /\ eCh[1] = "closed"
  /\ eMsg[2] = "empty" /\ eGot[2] = "nil" /\ eCh[2] = "closed"
  /\ \A s \in Streams : eW[s] = "returned"

\* C37: every worker that obtained a stream from createStream receives
\* from the stream's error channel before it exits, on every exit path, so
\* the goroutine that reads the error stream never stays at its send.
C37_WorkerAlwaysDrains ==
  \A s \in Streams :
    /\ (eW[s] = "returned" /\ eCh[s] # "none") => eGot[s] # "none"
    /\ eW[s] = "returned" => eG[s] # "send"

\* the worker returned before its receive, the error stream carried a
\* text, and the goroutine is at errCh <- err with no receiver
C37_GoroutineLeftAtSend ==
  \E s \in Streams :
    /\ eW[s] = "returned" /\ eGot[s] = "none" /\ eCh[s] = "open"
    /\ eMsg[s] = "text" /\ eG[s] = "send"

(***************************************************************************)
(* SOCKS5 machine: socks5Handshake on one accepted connection and          *)
(* handleSOCKS5Conn, which starts the TCP flow.                            *)
(***************************************************************************)
maxAddrLen == 256

\* the requests of the clients: VER NMETHODS METHODS, then VER CMD RSV ATYP
\* DST.ADDR DST.PORT, then payload
SocksAddrs(atyp) ==
  CASE atyp = 1 -> { <<10, 0, 0, 1>>, <<1, 187, 0, 80>> }
    [] atyp = 4 -> { Zeros(15) \o <<1>>, <<253, 0>> \o Zeros(13) \o <<2>> }
    [] atyp = 3 -> { <<>>, <<97>>, <<101, 120, 46, 99, 111, 109>> }
    [] OTHER -> { <<10, 0, 0, 1>> }

SocksRequests ==
  { [ver |-> v, methods |-> m, cmd |-> c, atyp |-> t, addr |-> a, port |-> p, tail |-> tl] :
      v \in {5}, m \in { <<>>, <<0>>, <<2, 0>> }, c \in {1, 2, 3}, t \in {0, 1, 3, 4, 5},
      a \in UNION { SocksAddrs(t2) : t2 \in {0, 1, 3, 4} }, p \in { <<0, 80>>, <<1, 187>>, <<255, 255>> },
      tl \in { <<>>, <<7>> } }

\* the bytes of a request on the wire
SocksEncode(r) ==
  <<r.ver, Len(r.methods)>> \o r.methods
    \o <<r.ver, r.cmd, 0, r.atyp>>
    \o (IF r.atyp = 3 THEN <<Len(r.addr)>> ELSE <<>>) \o r.addr
    \o r.port \o r.tail

\* the numbers of bytes after which a client may stop sending
SocksCuts == {0, 1, 3, 5, 8, 12}

\* bytesReader.ReadBytes: io.ReadFull into b.buf[:n]; the result is the
\* slice b.buf[:n] itself
ReadBytes(in, buf, n) ==
  IF Len(in) >= n
    THEN [ok |-> TRUE, data |-> Take(in, n), in |-> Drop(in, n), buf |-> Take(in, n) \o Drop(buf, n)]
    ELSE [ok |-> FALSE, data |-> <<>>, in |-> <<>>, buf |-> in \o Drop(buf, Len(in))]

\* bytesReader.ReadString: a length byte, then that many bytes
ReadString(in, buf) ==
  LET l == ReadBytes(in, buf, 1)
  IN  IF l.ok THEN ReadBytes(l.in, l.buf, l.data[1]) ELSE l

\* an address that shares the reader's buffer: it shows what was read last
copyBuffer_Alias(b, bufLater) == Take(bufLater, Len(b))

\* copyBuffer: the copy keeps its bytes whatever is read into br.buf later
copyBuffer(b, bufLater) == b

\* clientConn.Write: all bytes are written, or the write fails after some
WriteOutcomes(b) ==
  { [ok |-> TRUE, wrote |-> b] } \cup { [ok |-> FALSE, wrote |-> Take(b, n)] : n \in {0, 1} }

SocksReply(code) == <<5, code, 0, 1, 0, 0, 0, 0, 0, 0>>

\* the address types of the first switch
SupportedAddrType(t) == t \in {1, 3, 4}

\* a handshake that also accepts BIND
IsConnect_OrBind(cmd) == cmd \in {1, 2}

\* case 1: // CONNECT
IsConnect(cmd) == cmd = 1

NoFlowHeader == [Protocol |-> 255, Port |-> 0, Addr |-> [typ |-> 0, data |-> <<>>]]

ZeroAddrPort == [addr |-> [typ |-> 0, data |-> <<>>], port |-> 0]

SocksInit ==
  /\ AlarmIdle
  /\ qConn = "open" /\ qExit = "none"
  /\ PickIdle
  /\ LoopIdle
  /\ ConnIdle
  /\ PudpIdle
  /\ UdpIdle
  /\ AddrIdle
  /\ TargetsIdle
  /\ PortsIdle
  /\ TcpIdle
  /\ RunIdle
  /\ CodecIdle /\ ErrIdle /\ FrameIdle /\ FwdIdle /\ ResIdle /\ SessIdle
  /\ \E r \in SocksRequests :
       /\ r.addr \in SocksAddrs(r.atyp)
       /\ \E n \in SocksCuts \cup {Len(SocksEncode(r))} :
            /\ n <= Len(SocksEncode(r))
            /\ qReq = [ver |-> r.ver, methods |-> r.methods, cmd |-> r.cmd, atyp |-> r.atyp,
                       addr |-> r.addr, port |-> r.port,
                       tail |-> IF n = Len(SocksEncode(r)) THEN r.tail ELSE <<>>,
                       sent |-> n]
            /\ qIn = Take(SocksEncode(r), n)
  /\ qBuf = Zeros(maxAddrLen) /\ qOut = <<>>
  /\ qpc = "methods" /\ qCmd = 0 /\ qAddr = [typ |-> 0, data |-> <<>>] /\ qPort = 0
  /\ qErr = "" /\ qRet = ZeroAddrPort /\ qHdr = NoFlowHeader /\ qWrFail = FALSE

\* return with err set by a failed read
SocksFail(rd, why) ==
  /\ qpc' = "failed" /\ qErr' = why
  /\ qIn' = rd.in /\ qBuf' = rd.buf

\* read VER, NMETHODS, METHODS
SocksReadMethods ==
  /\ qpc = "methods"
  /\ LET r1 == ReadBytes(qIn, qBuf, 2)
         r2 == ReadBytes(r1.in, r1.buf, r1.data[2])
     IN  IF ~r1.ok THEN SocksFail(r1, "read")
         ELSE IF ~r2.ok THEN SocksFail(r2, "read")
         ELSE qpc' = "greet" /\ qIn' = r2.in /\ qBuf' = r2.buf /\ UNCHANGED qErr
  /\ UNCHANGED <<qReq, qOut, qCmd, qAddr, qPort, qRet, qHdr, qWrFail>>
  /\ UNCHANGED socksOthers

\* write VER METHOD
SocksWriteMethod ==
  /\ qpc = "greet"
  /\ \E w \in WriteOutcomes(<<5, 0>>) :
       /\ qOut' = qOut \o w.wrote
       /\ qWrFail' = ~w.ok
       /\ IF w.ok THEN qpc' = "request" /\ UNCHANGED qErr
                  ELSE qpc' = "failed" /\ qErr' = "write"
  /\ UNCHANGED <<qReq, qIn, qBuf, qCmd, qAddr, qPort, qRet, qHdr>>
  /\ UNCHANGED socksOthers

\* read VER CMD RSV ATYP DST.ADDR
SocksReadRequest ==
  /\ qpc = "request"
  /\ LET r1 == ReadBytes(qIn, qBuf, 3)
         r2 == ReadBytes(r1.in, r1.buf, 1)
         adrType == r2.data[1]
         r3 == CASE adrType = 1 -> ReadBytes(r2.in, r2.buf, 4)
                 [] adrType = 4 -> ReadBytes(r2.in, r2.buf, 16)
                 [] OTHER -> ReadString(r2.in, r2.buf)
     IN  IF ~r1.ok THEN SocksFail(r1, "read") /\ UNCHANGED <<qCmd, qAddr, qOut, qWrFail>>
         ELSE IF ~r2.ok THEN SocksFail(r2, "read") /\ qCmd' = r1.data[2] /\ UNCHANGED <<qAddr, qOut, qWrFail>>
         ELSE IF ~SupportedAddrType(adrType)
           THEN /\ \E w \in WriteOutcomes(SocksReply(8)) :
                     qOut' = qOut \o w.wrote /\ qWrFail' = ~w.ok
                /\ qpc' = "failed" /\ qErr' = "unsupported address type"
                /\ qIn' = r2.in /\ qBuf' = r2.buf
                /\ qCmd' = r1.data[2] /\ UNCHANGED qAddr
         ELSE IF ~r3.ok THEN SocksFail(r3, "read") /\ qCmd' = r1.data[2] /\ UNCHANGED <<qAddr, qOut, qWrFail>>
         ELSE /\ qpc' = "port" /\ qCmd' = r1.data[2]
              /\ qAddr' = AddrFromBytes(IF adrType = 3 THEN AddrTypeHost ELSE AddrTypeIP, r3.data)
              /\ qIn' = r3.in /\ qBuf' = r3.buf
              /\ UNCHANGED <<qErr, qOut, qWrFail>>
  /\ UNCHANGED <<qReq, qPort, qRet, qHdr>>
  /\ UNCHANGED socksOthers

\* br.ReadUint16(): read DST.PORT
SocksReadPort ==
  /\ qpc = "port"
  /\ LET r == ReadBytes(qIn, qBuf, 2)
     IN  IF ~r.ok THEN SocksFail(r, "read") /\ UNCHANGED <<qPort, qAddr>>
         ELSE /\ qpc' = "reply" /\ qPort' = Uint16(r.data)
              /\ qAddr' = [qAddr EXCEPT !.data = copyBuffer(qAddr.data, r.buf)]
              /\ qIn' = r.in /\ qBuf' = r.buf /\ UNCHANGED qErr
  /\ UNCHANGED <<qReq, qOut, qCmd, qRet, qHdr, qWrFail>>
  /\ UNCHANGED socksOthers

\* switch cmd: the success reply for CONNECT, X'07' for any other command
SocksAnswer ==
  /\ qpc = "reply"
  /\ IF IsConnect(qCmd)
       THEN \E w \in WriteOutcomes(SocksReply(0)) :
              /\ qOut' = qOut \o w.wrote /\ qWrFail' = ~w.ok
              /\ IF w.ok THEN qpc' = "returned" /\ qRet' = [addr |-> qAddr, port |-> qPort] /\ UNCHANGED qErr
                         ELSE qpc' = "failed" /\ qErr' = "write" /\ UNCHANGED qRet
       ELSE /\ \E w \in WriteOutcomes(SocksReply(7)) :
                 qOut' = qOut \o w.wrote /\ qWrFail' = ~w.ok
            /\ qpc' = "failed" /\ qErr' = "unsupported command" /\ UNCHANGED qRet
  /\ UNCHANGED <<qReq, qIn, qBuf, qCmd, qAddr, qPort, qHdr>>
  /\ UNCHANGED socksOthers

\* handleSOCKS5Conn after a handshake without error: go handleTCPConn(...),
\* whose Header carries the pair the handshake returned
HandleSOCKS5Conn ==
  /\ qpc = "returned"
  /\ qpc' = "handed"
  /\ qHdr' = [Protocol |-> ProtocolTCP, Port |-> qRet.port, Addr |-> qRet.addr]
  /\ UNCHANGED <<qReq, qIn, qBuf, qOut, qCmd, qAddr, qPort, qErr, qRet, qWrFail>>
  /\ UNCHANGED socksOthers

\* the exit paths of handleTCPConn: createStream fails, the Header write
\* fails, the Acknowledgement cannot be read, its code is not OK, or the
\* copy ends and the error channel was read
WorkerExitPaths == {"stream", "header", "ack", "refused", "copied"}

\* a worker without the deferred Close
ClosedOnExit_Never(path) == FALSE

\* defer clientConn.Close(), the first statement of handleTCPConn
ClosedOnExit(path) == path \in WorkerExitPaths

\* handleTCPConn returns on one of its paths and its deferred calls run
SocksWorkerExit ==
  /\ qpc = "handed" /\ qExit = "none"
  /\ \E path \in WorkerExitPaths :
       /\ qExit' = path
       /\ qConn' = IF ClosedOnExit(path) THEN "closed" ELSE qConn
  /\ UNCHANGED acceptedOthers

SocksNext ==
  \/ SocksReadMethods
  \/ SocksWriteMethod
  \/ SocksReadRequest
  \/ SocksReadPort
  \/ SocksAnswer
  \/ HandleSOCKS5Conn
  \/ SocksWorkerExit

SpecSocks == SocksInit /\ [][SocksNext]_vars

\* the goroutines of handleSOCKS5Conn and handleTCPConn run while they can
\* take a step; a read that waits for bytes the client never sends ends
\* with an error
SpecSocksFair == SpecSocks /\ WF_vars(SocksNext)

IsPrefixOf(a, b) == Len(a) <= Len(b) /\ a = SubSeq(b, 1, Len(a))

\* the bytes of the request up to and including ATYP: all a handshake reads
\* of a request with an address type it does not support
UpToAddrType(r) == 2 + Len(r.methods) + 4

\* the bytes of the request up to and including DST.PORT
UpToPort(r) == Len(SocksEncode(r)) - Len(r.tail)

\* the handshake and handleSOCKS5Conn have nothing left to do
SocksEnded == qpc \in {"failed", "handed"}

\* C14: for a client that sends a method selection and a CONNECT request
\* with address type 1, 3 or 4, the handshake writes 05 00 and then
\* 05 00 00 01 00 00 00 00 00 00 and nothing else, returns the requested
\* address (IP for 1 and 4, Host for 3) with the big-endian port, and the
\* Header of the TCP flow started for the connection carries that pair; the
\* bytes the client sent after the request are left for the flow.
C14_ConnectHandshake ==
  (/\ qReq.sent >= UpToPort(qReq)
   /\ qReq.cmd = 1 /\ qReq.atyp \in {1, 3, 4})
  => /\ IsPrefixOf(qOut, <<5, 0, 5, 0, 0, 1, 0, 0, 0, 0, 0, 0>>)
     /\ (SocksEnded /\ ~qWrFail) => qpc = "handed"
     /\ qpc \in {"returned", "handed"}
          => /\ qOut = <<5, 0, 5, 0, 0, 1, 0, 0, 0, 0, 0, 0>>
             /\ qErr = ""
             /\ qRet.addr.typ = (IF qReq.atyp = 3 THEN AddrTypeHost ELSE AddrTypeIP)
             /\ qRet.addr.data = qReq.addr
             /\ qRet.port = qReq.port[1] * 256 + qReq.port[2]
             /\ qIn = qReq.tail
     /\ qpc = "handed"
          => qHdr = [Protocol |-> ProtocolTCP, Port |-> qRet.port, Addr |-> qRet.addr]

C14_Witness ==
  /\ qpc = "handed" /\ qReq.cmd = 1 /\ qReq.atyp = 1
  /\ qReq.addr = <<1, 187, 0, 80>> /\ qReq.port = <<1, 187>> /\ qReq.tail = <<7>>
  /\ qHdr.Port = 443 /\ qHdr.Addr.data = <<1, 187, 0, 80>>

\* C15: a request whose address type is not 1, 3 or 4 is answered with
\* reply code 08, and a request with a supported address type whose command
\* is not CONNECT with reply code 07; in both cases the handshake returns an
\* error, writes no success reply, and no TCP flow is started.
C15_UnsupportedRequests ==
  /\ (qReq.sent >= UpToAddrType(qReq) /\ qReq.atyp \notin {1, 3, 4})
       => /\ qpc \notin {"port", "reply", "returned", "handed"}
          /\ qHdr = NoFlowHeader
          /\ IsPrefixOf(qOut, <<5, 0>> \o <<5, 8, 0, 1, 0, 0, 0, 0, 0, 0>>)
          /\ SocksEnded => /\ qpc = "failed" /\ qErr # "" /\ qRet = ZeroAddrPort
                           /\ ~qWrFail => /\ qOut = <<5, 0>> \o <<5, 8, 0, 1, 0, 0, 0, 0, 0, 0>>
                                          /\ qErr = "unsupported address type"
  /\ (qReq.sent >= UpToPort(qReq) /\ qReq.atyp \in {1, 3, 4} /\ qReq.cmd # 1)
       => /\ qpc \notin {"returned", "handed"}
          /\ qHdr = NoFlowHeader
          /\ IsPrefixOf(qOut, <<5, 0>> \o <<5, 7, 0, 1, 0, 0, 0, 0, 0, 0>>)
          /\ SocksEnded => /\ qpc = "failed" /\ qErr # "" /\ qRet = ZeroAddrPort
                           /\ ~qWrFail => /\ qOut = <<5, 0>> \o <<5, 7, 0, 1, 0, 0, 0, 0, 0, 0>>
                                          /\ qErr = "unsupported command"

C15_Witness ==
  /\ qpc = "failed" /\ ~qWrFail
  /\ qReq.atyp = 3 /\ qReq.cmd = 2 /\ qOut = <<5, 0, 5, 7, 0, 1, 0, 0, 0, 0, 0, 0>>

\* the other case of C15: an address type that is not supported
C15_AddrTypeRefused ==
  /\ qpc = "failed" /\ ~qWrFail
  /\ qReq.atyp = 5 /\ qReq.cmd = 1 /\ qOut = <<5, 0, 5, 8, 0, 1, 0, 0, 0, 0, 0, 0>>

\* C36: every Address of the Host variant that the client places in a
\* Header has a non-empty payload (here: the Header of the flow that
\* handleSOCKS5Conn starts for a domain request).
C36_HostNeverEmpty ==
  (qpc = "handed" /\ qHdr.Addr.typ = AddrTypeHost) => qHdr.Addr.data # <<>>

\* what holds: the Header of a request with a domain carries the Host
\* variant with the bytes of the request, however many, and the Header of
\* a request with address type 1 or 4 the IP variant with 4 or 16 bytes
C36_HostIsRequestedDomain ==
  qpc = "handed"
    => /\ qReq.atyp = 3 => qHdr.Addr = [typ |-> AddrTypeHost, data |-> qReq.addr]
       /\ qReq.atyp = 1 => (qHdr.Addr.typ = AddrTypeIP /\ Len(qHdr.Addr.data) = 4)
       /\ qReq.atyp = 4 => (qHdr.Addr.typ = AddrTypeIP /\ Len(qHdr.Addr.data) = 16)

\* a CONNECT request with a domain of length 0 went through the handshake
\* and the flow's Header carries an empty Host
C36_EmptyHostInHeader ==
  /\ qpc = "handed" /\ qReq.cmd = 1 /\ qReq.atyp = 3 /\ qReq.addr = <<>>
  /\ qHdr.Addr = [typ |-> AddrTypeHost, data |-> <<>>]
  /\ qOut = <<5, 0, 5, 0, 0, 1, 0, 0, 0, 0, 0, 0>>

\* C38: every connection the client accepted on the SOCKS5 listener is
\* eventually closed by the client, on every exit path: a failed
\* handshake, and each exit of the worker the connection is handed to.
C38_AcceptedConnEventuallyClosed == <>(qConn = "closed")

\* what holds: a connection that was handed to handleTCPConn is closed when
\* the worker exits, whichever path it takes, and only then
C38_HandedConnClosed ==
  /\ (qExit # "none") <=> (qConn = "closed")
  /\ qExit # "none" => qpc = "handed"

\* the handshake failed, handleSOCKS5Conn has returned and the connection
\* is open
C38_FailedHandshakeLeavesConnOpen ==
  /\ qpc = "failed" /\ qErr = "unsupported command" /\ qConn = "open" /\ qExit = "none"

(***************************************************************************)
(* Run machine: Options.Run from its listen loop to its return, and        *)
(* portForwarder.run of every forwarder it starts.                         *)
(***************************************************************************)
MaxForwarders == 2

MaxTaken == 1

Forwarders == 1..MaxForwarders

RunInit ==
  /\ AlarmIdle
  /\ AcceptedIdle
  /\ PickIdle
  /\ LoopIdle
  /\ ConnIdle
  /\ PudpIdle
  /\ UdpIdle
  /\ AddrIdle
  /\ TargetsIdle
  /\ PortsIdle
  /\ TcpIdle
  /\ CodecIdle /\ ErrIdle /\ FrameIdle /\ FwdIdle /\ ResIdle /\ SessIdle /\ SocksIdle
  /\ oF \in [Forwarders -> { [proto |-> p, tcpListener |-> FALSE, udpListener |-> FALSE,
                              listenErr |-> FALSE, pc |-> "new", taken |-> 0, workers |-> 0] :
                             p \in {"tcp", "udp"} }]
  /\ oI = 1 /\ oSucceeded = FALSE
  /\ oPc = "listen" /\ oErr = "" /\ oTunnel = "none"

\* portForwarder.listen: net.Listen or net.ListenPacket succeeds and the
\* listener is stored, or it fails and the error is returned
listen(pf, ok) ==
  IF ~ok THEN [pf EXCEPT !.listenErr = TRUE]
  ELSE IF pf.proto = "tcp" THEN [pf EXCEPT !.tcpListener = TRUE]
  ELSE [pf EXCEPT !.udpListener = TRUE]

\* one iteration of the loop over portForwarders
RunListen ==
  /\ oPc = "listen" /\ oI <= MaxForwarders
  /\ \E ok \in BOOLEAN :
       /\ oF' = [oF EXCEPT ![oI] = listen(oF[oI], ok)]
       /\ oSucceeded' = (oSucceeded \/ ok)
  /\ oI' = oI + 1
  /\ UNCHANGED <<oPc, oErr, oTunnel>>
  /\ UNCHANGED runOthers

\* if !succeeded { return ... }
RunCheck ==
  /\ oPc = "listen" /\ oI > MaxForwarders
  /\ IF oSucceeded
       THEN oPc' = "tunnel" /\ UNCHANGED oErr
       ELSE oPc' = "returned" /\ oErr' = "unable to listen on any of the requested ports"
  /\ UNCHANGED <<oF, oI, oSucceeded, oTunnel>>
  /\ UNCHANGED runOthers

\* the server pod is created and awaited and the tunnel is dialed; any of
\* these may fail
RunDial ==
  /\ oPc = "tunnel"
  /\ \E ok \in BOOLEAN :
       IF ok THEN oPc' = "spawn" /\ oTunnel' = "open" /\ UNCHANGED oErr
       ELSE oPc' = "returned" /\ oErr' = "tunnel" /\ UNCHANGED oTunnel
  /\ UNCHANGED <<oF, oI, oSucceeded>>
  /\ UNCHANGED runOthers

\* for _, pf := range portForwarders { go pf.run(streamConn) }
RunSpawn ==
  /\ oPc = "spawn"
  /\ oF' = [f \in Forwarders |-> [oF[f] EXCEPT !.pc = "start"]]
  /\ oPc' = "wait"
  /\ UNCHANGED <<oI, oSucceeded, oErr, oTunnel>>
  /\ UNCHANGED runOthers

\* a forwarder that serves whatever listen() returned
HasListener_Always(pf) == TRUE

\* the cases of run's switch: p.tcpListener != nil, p.udpListener != nil
HasListener(pf) == pf.tcpListener \/ pf.udpListener

\* portForwarder.run enters the loop of its listener, or returns when it
\* has none
ForwarderStart(f) ==
  /\ oF[f].pc = "start"
  /\ oF' = [oF EXCEPT ![f].pc = IF HasListener(oF[f]) THEN "loop" ELSE "exited"]
  /\ UNCHANGED <<oI, oSucceeded, oPc, oErr, oTunnel>>
  /\ UNCHANGED runOthers

\* one round of the loop: l.Accept() or udpConn.ReadFrom(buf) returns and a
\* worker is started for the connection or the new source
ForwarderTake(f) ==
  /\ oF[f].pc = "loop" /\ oTunnel = "open"
  /\ oF[f].taken < MaxTaken
  /\ oF' = [oF EXCEPT ![f].taken = @ + 1, ![f].workers = @ + 1]
  /\ UNCHANGED <<oI, oSucceeded, oPc, oErr, oTunnel>>
  /\ UNCHANGED runOthers

\* case <-streamConn.CloseChan(): return, or the listener fails
ForwarderExit(f) ==
  /\ oF[f].pc = "loop"
  /\ oF' = [oF EXCEPT ![f].pc = "exited"]
  /\ UNCHANGED <<oI, oSucceeded, oPc, oErr, oTunnel>>
  /\ UNCHANGED runOthers

\* the tunnel is lost
TunnelLost ==
  /\ oTunnel = "open"
  /\ oTunnel' = "closed"
  /\ UNCHANGED <<oF, oI, oSucceeded, oPc, oErr>>
  /\ UNCHANGED runOthers

\* the select at the end of Run: the tunnel's CloseChan or ctx.Done(); the
\* deferred streamConn.Close() runs
RunReturn ==
  /\ oPc = "wait"
  /\ oPc' = "returned" /\ oTunnel' = "closed"
  /\ UNCHANGED <<oF, oI, oSucceeded, oErr>>
  /\ UNCHANGED runOthers

RunNext ==
  \/ RunListen
  \/ RunCheck
  \/ RunDial
  \/ RunSpawn
  \/ \E f \in Forwarders : ForwarderStart(f)
  \/ \E f \in Forwarders : ForwarderTake(f)
  \/ \E f \in Forwarders : ForwarderExit(f)
  \/ TunnelLost
  \/ RunReturn

SpecRun == RunInit /\ [][RunNext]_vars

\* C16: when listen() fails for every forwarder, Run returns an error
\* before the tunnel is opened; when it succeeds for at least one, the bind
\* failures of the others do not stop Run; a forwarder whose listen() failed
\* never accepts a connection, reads a datagram or starts a worker.
C16_ListenFailures ==
  /\ (oI > MaxForwarders /\ oPc # "listen" /\ \A f \in Forwarders : oF[f].listenErr)
       => /\ oPc = "returned" /\ oTunnel = "none"
          /\ oErr = "unable to listen on any of the requested ports"
  /\ (oI > MaxForwarders /\ oPc # "listen" /\ \E f \in Forwarders : ~oF[f].listenErr)
       => /\ oErr # "unable to listen on any of the requested ports"
          /\ oPc = "returned" => (oErr = "tunnel" \/ oTunnel = "closed")
  /\ \A f \in Forwarders :
       oF[f].listenErr => /\ oF[f].pc \in {"new", "start", "exited"}
                          /\ oF[f].taken = 0 /\ oF[f].workers = 0
  /\ \A f \in Forwarders : oTunnel = "none" => oF[f].pc = "new"

C16_Witness ==
  /\ oF[1].listenErr /\ oF[1].pc = "exited"
  /\ ~oF[2].listenErr /\ oF[2].pc = "loop" /\ oF[2].workers = 1
  /\ oPc = "wait" /\ oTunnel = "open"

\* every listen() failed and Run has returned
C16_AllFailed ==
  /\ \A f \in Forwarders : oF[f].listenErr
  /\ oPc = "returned" /\ oErr = "unable to listen on any of the requested ports"

(***************************************************************************)
(* ProxyTCP machine: the two tcpBroker goroutines between downConn and     *)
(* upConn, each named by the connection it reads from.                     *)
(***************************************************************************)
MaxStream == 3

\* the size of a pooled buffer, in bytes
MaxChunk == 2

Conns == {"down", "up"}

Other(c) == IF c = "down" THEN "up" ELSE "down"

\* the bytes the two peers send: the client's are below 10, the
\* destination's above
PeerBytes(c) == IF c = "down" THEN <<1, 2, 1, 3>> ELSE <<11, 12, 11, 13>>

\* two brokers that copy through one buffer
BufOf_Shared(c) == "down"

\* bufPtr := tcpPool.Get(): each broker has a buffer of its own
BufOf(c) == c

TcpInit ==
  /\ AlarmIdle
  /\ AcceptedIdle
  /\ PickIdle
  /\ LoopIdle
  /\ ConnIdle
  /\ PudpIdle
  /\ UdpIdle
  /\ AddrIdle
  /\ TargetsIdle
  /\ PortsIdle
  /\ CodecIdle /\ ErrIdle /\ FrameIdle /\ FwdIdle /\ ResIdle /\ RunIdle /\ SessIdle /\ SocksIdle
  /\ \E nd \in 0..MaxStream, nu \in 0..MaxStream :
       tSrc = [c \in Conns |-> Take(PeerBytes(c), IF c = "down" THEN nd ELSE nu)]
  /\ tRead = [c \in Conns |-> <<>>]
  /\ tBuf = [c \in Conns |-> Zeros(MaxChunk)]
  /\ tN = [c \in Conns |-> 0]
  /\ tWritten = [c \in Conns |-> <<>>]
  /\ tB = [c \in Conns |-> "read"]
  /\ tRdClosed = {} /\ tClosed = {}
  /\ tM = "select" /\ tWait = "none"
  /\ tFirst = "none" /\ tLinger = {}

\* io.CopyBuffer: src.Read(buf) returns some bytes
BrokerRead(c) ==
  /\ tB[c] = "read" /\ c \notin tRdClosed \cup tClosed
  /\ \E n \in 1..MaxChunk :
       /\ n <= Len(tSrc[c])
       /\ tBuf' = [tBuf EXCEPT ![BufOf(c)] = Take(tSrc[c], n) \o Drop(@, n)]
       /\ tN' = [tN EXCEPT ![c] = n]
       /\ tRead' = [tRead EXCEPT ![c] = @ \o Take(tSrc[c], n)]
       /\ tSrc' = [tSrc EXCEPT ![c] = Drop(@, n)]
  /\ tB' = [tB EXCEPT ![c] = "write"]
  /\ UNCHANGED <<tWritten, tRdClosed, tClosed, tM, tWait, tFirst, tLinger>>
  /\ UNCHANGED tcpOthers

\* src.Read(buf) returns io.EOF or an error: the peer has sent everything,
\* or the read side or the connection was closed
BrokerReadEnd(c) ==
  /\ tB[c] = "read"
  /\ tSrc[c] = <<>> \/ c \in tRdClosed \cup tClosed
  /\ tB' = [tB EXCEPT ![c] = "exit"]
  /\ UNCHANGED <<tSrc, tRead, tBuf, tN, tWritten, tRdClosed, tClosed, tM, tWait, tFirst, tLinger>>
  /\ UNCHANGED tcpOthers

\* dst.Write(buf[0:nr]): all bytes are written, or fewer and the copy ends;
\* nothing is written to a closed connection
BrokerWrite(c) ==
  /\ tB[c] = "write"
  /\ \E k \in 0..tN[c] :
       /\ Other(c) \in tClosed => k = 0
       /\ tWritten' = [tWritten EXCEPT ![c] = @ \o Take(tBuf[BufOf(c)], k)]
       /\ tB' = [tB EXCEPT ![c] = IF k = tN[c] THEN "read" ELSE "exit"]
  /\ UNCHANGED <<tSrc, tRead, tBuf, tN, tRdClosed, tClosed, tM, tWait, tFirst, tLinger>>
  /\ UNCHANGED tcpOthers

\* close(srcClosed) and the deferred src.Close()
BrokerExit(c) ==
  /\ tB[c] = "exit"
  /\ tB' = [tB EXCEPT ![c] = "done"]
  /\ tClosed' = tClosed \cup {c}
  /\ tFirst' = IF tFirst = "none" THEN c ELSE tFirst
  /\ UNCHANGED <<tSrc, tRead, tBuf, tN, tWritten, tRdClosed, tM, tWait, tLinger>>
  /\ UNCHANGED tcpOthers

\* a select that sets the linger time of the other connection in both cases
LingerOnSelect_Both(c) == {Other(c)}

\* case <-downClosed: upConn.SetLinger(0); case <-upClosed: no SetLinger
LingerOnSelect(c) == IF c = "down" THEN {"up"} ELSE {}

\* the select of ProxyTCP: the channel of one connection's broker is
\* closed (either case when both are), SetLinger(0) in the case of
\* downClosed, CloseRead on the other connection, wait for its broker
ProxySelect(c) ==
  /\ tM = "select" /\ tB[c] = "done"
  /\ tLinger' = tLinger \cup LingerOnSelect(c)
  /\ tRdClosed' = tRdClosed \cup {Other(c)}
  /\ tWait' = Other(c)
  /\ tM' = "wait"
  /\ UNCHANGED <<tSrc, tRead, tBuf, tN, tWritten, tB, tClosed, tFirst>>
  /\ UNCHANGED tcpOthers

\* <-waitFor
ProxyWait ==
  /\ tM = "wait" /\ tB[tWait] = "done"
  /\ tM' = "returned"
  /\ UNCHANGED <<tSrc, tRead, tBuf, tN, tWritten, tB, tRdClosed, tClosed, tWait, tFirst, tLinger>>
  /\ UNCHANGED tcpOthers

TcpNext ==
  \/ \E c \in Conns : BrokerRead(c)
  \/ \E c \in Conns : BrokerReadEnd(c)
  \/ \E c \in Conns : BrokerWrite(c)
  \/ \E c \in Conns : BrokerExit(c)
  \/ \E c \in Conns : ProxySelect(c)
  \/ ProxyWait

SpecTcp == TcpInit /\ [][TcpNext]_vars

\* the goroutines of ProxyTCP and of the brokers are scheduled whenever
\* they can take a step; a read that waits for the peer is not forced to
\* end, a read on a connection that was closed is
SpecTcpFair ==
  /\ SpecTcp
  /\ \A c \in Conns : WF_vars(BrokerRead(c))
  /\ \A c \in Conns : WF_vars(BrokerReadEnd(c) /\ c \in tRdClosed \cup tClosed)
  /\ \A c \in Conns : WF_vars(BrokerWrite(c))
  /\ \A c \in Conns : WF_vars(BrokerExit(c))
  /\ \A c \in Conns : WF_vars(ProxySelect(c))
  /\ WF_vars(ProxyWait)

\* C17: at every moment and in each direction the bytes written to the
\* destination are a prefix of the bytes read from the source of that
\* direction, which are a prefix of what the peer sent: no byte is
\* reordered, duplicated, altered or moved to the other direction.
C17_WrittenIsPrefixOfRead ==
  \A c \in Conns :
    /\ IsPrefixOf(tWritten[c], tRead[c])
    /\ IsPrefixOf(tRead[c], PeerBytes(c))
    /\ tRead[c] \o tSrc[c] = Take(PeerBytes(c), Len(tRead[c]) + Len(tSrc[c]))

C17_Witness ==
  /\ tM = "returned"
  /\ tWritten["down"] = <<1, 2, 1>> /\ tRead["down"] = <<1, 2, 1>>
  /\ tWritten["up"] = <<11>> /\ tRead["up"] = <<11, 12>>

(***************************************************************************)
(* Ports machine: ports.Parser.Parse over the port specs of one target,    *)
(* with the object of the target.  Strings are sequences of characters.    *)
(***************************************************************************)
MaxArgs == 2

constantsProtocolTCP == <<"t", "c", "p">>

constantsProtocolUDP == <<"u", "d", "p">>

Digits == {"0", "1", "2", "3", "4", "5", "6", "7", "8", "9"}

DigitValue(c) ==
  CASE c = "0" -> 0 [] c = "1" -> 1 [] c = "2" -> 2 [] c = "3" -> 3 [] c = "4" -> 4
    [] c = "5" -> 5 [] c = "6" -> 6 [] c = "7" -> 7 [] c = "8" -> 8 [] OTHER -> 9

RECURSIVE DecimalValue(_)
DecimalValue(s) ==
  IF s = <<>> THEN 0 ELSE DecimalValue(SubSeq(s, 1, Len(s) - 1)) * 10 + DigitValue(s[Len(s)])

\* parsePort: strconv.ParseUint(s, 10, 16)
parsePort(s) ==
  IF s = <<>> \/ (\E i \in 1..Len(s) : s[i] \notin Digits) \/ DecimalValue(s) > 65535
    THEN [err |-> "invalid port", port |-> 0]
    ELSE [err |-> "", port |-> ToUint16(DecimalValue(s))]

\* strings.IndexRune: the 0-based index of the first occurrence, -1 if none
IndexRune(s, c) ==
  IF \E i \in 1..Len(s) : s[i] = c
    THEN (CHOOSE i \in 1..Len(s) : s[i] = c /\ \A j \in 1..(i - 1) : s[j] # c) - 1
    ELSE -1

\* strings.Split
RECURSIVE Split(_, _)
Split(s, c) ==
  LET k == IndexRune(s, c)
  IN  IF k < 0 THEN <<s>> ELSE <<SubSeq(s, 1, k)>> \o Split(SubSeq(s, k + 2, Len(s)), c)

\* strings.ToLower on the protocol names of the API
ToLower(proto) ==
  CASE proto = "TCP" -> constantsProtocolTCP
    [] proto = "UDP" -> constantsProtocolUDP
    [] OTHER -> <<>>

\* the objects of a target: none, or a workload with the ports it declares
\* in order (for a pod spec: container by container)
NoObject == [kind |-> "none", ports |-> <<>>]

PortObjects ==
  { NoObject,
    [kind |-> "Service", ports |-> << [name |-> <<"u">>, port |-> 53, proto |-> "UDP"],
                                      [name |-> <<"t">>, port |-> 53, proto |-> "TCP"] >>],
    [kind |-> "StatefulSet", ports |-> << [name |-> <<"t">>, port |-> 80, proto |-> "TCP"],
                                          [name |-> <<"u">>, port |-> 53, proto |-> "UDP"] >>],
    [kind |-> "Pod", ports |-> << [name |-> <<"t">>, port |-> 80, proto |-> "TCP"],
                                  [name |-> <<"m">>, port |-> 80, proto |-> "TCP"] >>],
    [kind |-> "Deployment", ports |-> <<>>],
    [kind |-> "ConfigMap", ports |-> <<>>] }

\* getPortsFromObject fails for a type it does not know
KnownObject(obj) == obj.kind \in {"Service", "Pod", "Deployment", "StatefulSet", "ReplicaSet", "DaemonSet"}

\* allPorts.Names[name]: the last port declared with the name
NamesLookup(obj, name) ==
  LET idx == { i \in 1..Len(obj.ports) : obj.ports[i].name = name }
  IN  IF idx = {} THEN [ok |-> FALSE, Port |-> 0, Protocol |-> <<>>]
      ELSE LET i == CHOOSE i \in idx : \A j \in idx : j <= i
           IN  [ok |-> TRUE, Port |-> ToUint16(obj.ports[i].port), Protocol |-> ToLower(obj.ports[i].proto)]

RECURSIVE ProtocolsOf(_, _)
\* allPorts.Protocols[port]: one entry appended per declaration of the port
ProtocolsOf(ports, port) ==
  IF ports = <<>> THEN <<>>
  ELSE (IF ToUint16(Head(ports).port) = port THEN <<ToLower(Head(ports).proto)>> ELSE <<>>)
         \o ProtocolsOf(Tail(ports), port)

\* a parser for which an empty LOCAL means the remote port
EmptyLocalStr_SameAsRemote == <<>>

\* if len(localStr) == 0 { localStr = "0" }
EmptyLocalStr == <<"0">>

ZeroPortPair == [LocalPort |-> 0, RemotePort |-> 0, Protocol |-> <<>>]

\* the body of the loop of Parse for one arg
ParseArg(arg0, obj) ==
  LET protoIdx == IndexRune(arg0, "@")
      hasProto == protoIdx > 0 /\ protoIdx < Len(arg0) - 1
      proto == IF hasProto THEN SubSeq(arg0, protoIdx + 2, Len(arg0)) ELSE <<>>
      arg == IF protoIdx > 0 THEN SubSeq(arg0, 1, protoIdx) ELSE arg0
      enforceProtocol == Len(proto) > 0
      parts == Split(arg, ":")
      localStr == IF Len(parts) = 2
                    THEN (IF Len(parts[1]) = 0 THEN EmptyLocalStr ELSE parts[1])
                    ELSE <<>>
      remoteStr == IF Len(parts) = 2 THEN parts[2] ELSE parts[1]
      remote == parsePort(remoteStr)
      named == NamesLookup(obj, remoteStr)
      protos == ProtocolsOf(obj.ports, remote.port)
      RemotePort == IF remote.err # "" THEN named.Port ELSE remote.port
      Protocol1 == IF remote.err # ""
                     THEN (IF enforceProtocol THEN proto ELSE named.Protocol)
                     ELSE IF ~enforceProtocol /\ obj.kind # "none" /\ protos # <<>>
                            THEN protos[1] ELSE proto
      Protocol == IF Len(Protocol1) = 0 THEN constantsProtocolTCP ELSE Protocol1
      local == parsePort(localStr)
      fail(e) == [err |-> e, pair |-> ZeroPortPair]
  IN  IF hasProto /\ proto \notin {constantsProtocolTCP, constantsProtocolUDP} THEN fail("unknown protocol")
      ELSE IF Len(parts) > 2 THEN fail("invalid port format")
      ELSE IF remote.err # "" /\ obj.kind = "none" THEN fail("invalid port")
      ELSE IF remote.err # "" /\ ~named.ok THEN fail("port name not found")
      ELSE IF remote.err = "" /\ ~enforceProtocol /\ obj.kind # "none" /\ Len(protos) > 1
             THEN fail("ambiguous protocol")
      ELSE IF Len(localStr) = 0
             THEN [err |-> "", pair |-> [LocalPort |-> RemotePort, RemotePort |-> RemotePort, Protocol |-> Protocol]]
      ELSE IF local.err # "" THEN fail("invalid port")
      ELSE [err |-> "", pair |-> [LocalPort |-> local.port, RemotePort |-> RemotePort, Protocol |-> Protocol]]

\* the port specs: [LOCAL:]REMOTE[@PROTO], each part present or not
ArgSpecs ==
  { a \in
      { [hasLocal |-> hl, local |-> l, remote |-> r, hasProto |-> hp, proto |-> pr] :
          hl \in BOOLEAN, l \in { <<>>, <<"0">>, <<"9">>, <<"x">>, <<"6", "5", "5", "3", "6">>, <<"1", ":", "2">> },
          r \in { <<"5", "3">>, <<"8", "0">>, <<"0", "8", "0">>, <<"t">>, <<"n">>, <<>> },
          hp \in BOOLEAN, pr \in { <<>>, constantsProtocolTCP, constantsProtocolUDP, <<"s">> } } :
      /\ ~a.hasLocal => a.local = <<>>
      /\ ~a.hasProto => a.proto = <<>> }

\* the specs a second and later arg is taken from
MoreArgSpecs ==
  { a \in ArgSpecs : /\ a.local \in { <<>>, <<"x">> } /\ a.remote \in { <<"5", "3">> }
                     /\ a.proto = <<>> /\ ~a.hasProto /\ (a.local = <<"x">> => a.hasLocal) }

\* the text of a port spec
Render(a) ==
  (IF a.hasLocal THEN a.local \o <<":">> ELSE <<>>) \o a.remote
    \o (IF a.hasProto THEN <<"@">> \o a.proto ELSE <<>>)

PortsInit ==
  /\ AlarmIdle
  /\ AcceptedIdle
  /\ PickIdle
  /\ LoopIdle
  /\ ConnIdle
  /\ PudpIdle
  /\ UdpIdle
  /\ AddrIdle
  /\ TargetsIdle
  /\ CodecIdle /\ ErrIdle /\ FrameIdle /\ FwdIdle /\ ResIdle /\ RunIdle /\ SessIdle /\ SocksIdle /\ TcpIdle
  /\ yObj \in PortObjects
  /\ \/ yArgs = <<>>
     \/ \E n \in 1..MaxArgs : \E a \in ArgSpecs : \E more \in [1..(n - 1) -> MoreArgSpecs] :
          yArgs = <<a>> \o more
  /\ yI = 1 /\ yRet = <<>> /\ yErr = "" /\ ypc = "objects"

\* if p.obj != nil { allPorts, err = getPortsFromObject(p.obj) ... }
ParseObject ==
  /\ ypc = "objects"
  /\ IF yObj.kind # "none" /\ ~KnownObject(yObj)
       THEN ypc' = "returned" /\ yErr' = "unknown object"
       ELSE ypc' = "loop" /\ UNCHANGED yErr
  /\ UNCHANGED <<yObj, yArgs, yI, yRet>>
  /\ UNCHANGED portsOthers

\* one iteration of the loop over p.args: the pair is appended, or Parse
\* returns nil and the error
ParseStep ==
  /\ ypc = "loop" /\ yI <= Len(yArgs)
  /\ LET r == ParseArg(Render(yArgs[yI]), yObj)
     IN  IF r.err # ""
           THEN ypc' = "returned" /\ yErr' = r.err /\ yRet' = <<>> /\ UNCHANGED yI
           ELSE yRet' = Append(yRet, r.pair) /\ yI' = yI + 1 /\ UNCHANGED <<ypc, yErr>>
  /\ UNCHANGED <<yObj, yArgs>>
  /\ UNCHANGED portsOthers

\* return ret, nil
ParseReturn ==
  /\ ypc = "loop" /\ yI > Len(yArgs)
  /\ ypc' = "returned"
  /\ UNCHANGED <<yObj, yArgs, yI, yRet, yErr>>
  /\ UNCHANGED portsOthers

PortsNext == ParseObject \/ ParseStep \/ ParseReturn

SpecPorts == PortsInit /\ [][PortsNext]_vars

\* a spec whose REMOTE is a port number and whose LOCAL, when given, is
\* empty or a port number
NumericSpec(a) ==
  /\ parsePort(a.remote).err = ""
  /\ (a.hasLocal /\ a.local # <<>>) => parsePort(a.local).err = ""

\* the distinct protocols under which the object declares the port
ExposedProtocols(obj, port) ==
  { ToLower(obj.ports[k].proto) : k \in { j \in 1..Len(obj.ports) : obj.ports[j].port = port } }

\* Parse has dealt with the i-th spec: it failed on it, or appended its pair
FailedAt(i) == ypc = "returned" /\ yErr # "" /\ yErr # "unknown object" /\ yI = i

PairOf(i) == yRet[i]

\* C18: a numeric remote port without @PROTO is rejected as ambiguous
\* exactly when the object declares the port under more than one distinct
\* protocol; with exactly one the protocol is inferred; with none, or
\* without an object, it is tcp; an explicit @tcp or @udp always overrides.
C18_AmbiguousExactlyWhenTwoProtocols ==
  \A i \in 1..Len(yArgs) :
    LET a == yArgs[i]
        ex == ExposedProtocols(yObj, parsePort(a.remote).port)
    IN  (NumericSpec(a) /\ (a.hasProto => a.proto \in {constantsProtocolTCP, constantsProtocolUDP}))
        => /\ FailedAt(i) => /\ yErr = "ambiguous protocol"
                             /\ ~a.hasProto /\ Cardinality(ex) > 1
           /\ i <= Len(yRet)
                => /\ a.hasProto => PairOf(i).Protocol = a.proto
                   /\ ~a.hasProto => /\ Cardinality(ex) <= 1
                                     /\ \A pr \in ex : PairOf(i).Protocol = pr
                                     /\ ex = {} => PairOf(i).Protocol = constantsProtocolTCP

\* a port declared under tcp and udp is refused
C18_Witness ==
  /\ yObj.kind = "Service" /\ Len(yArgs) = 1 /\ Render(yArgs[1]) = <<"5", "3">>
  /\ FailedAt(1) /\ yErr = "ambiguous protocol"

\* a port declared twice under the same protocol
C18_SameProtocolTwice ==
  /\ yObj.kind = "Pod" /\ Len(yArgs) = 1 /\ Render(yArgs[1]) = <<"8", "0">>
  /\ FailedAt(1) /\ yErr = "ambiguous protocol"
  /\ ExposedProtocols(yObj, 80) = {constantsProtocolTCP}

\* the number of the port the object declares under the name
PortNamed(obj, name) ==
  LET k == CHOOSE j \in 1..Len(obj.ports) : obj.ports[j].name = name
  IN  obj.ports[k].port

\* C19: a spec without ':' gets LocalPort = RemotePort (the resolved number
\* for a port name), ':REMOTE' gets LocalPort 0, 'LOCAL:REMOTE' the stated
\* local port; when any spec fails, Parse returns an error and no pairs.
C19_LocalPortRules ==
  /\ \A i \in 1..Len(yRet) :
       LET a == yArgs[i]
       IN  /\ PairOf(i).RemotePort = (IF parsePort(a.remote).err = ""
                                        THEN DecimalValue(a.remote)
                                        ELSE PortNamed(yObj, a.remote))
           /\ ~a.hasLocal => PairOf(i).LocalPort = PairOf(i).RemotePort
           /\ (a.hasLocal /\ a.local = <<>>) => PairOf(i).LocalPort = 0
           /\ (a.hasLocal /\ a.local # <<>>)
                => /\ \A k \in 1..Len(a.local) : a.local[k] \in Digits
                   /\ PairOf(i).LocalPort = DecimalValue(a.local)
  /\ (ypc = "returned" /\ yErr # "") => yRet = <<>>
  /\ (ypc = "returned" /\ yErr = "") => Len(yRet) = Len(yArgs)
  /\ Len(yRet) <= Len(yArgs) /\ (ypc = "loop" => Len(yRet) = yI - 1)

C19_Witness ==
  /\ ypc = "returned" /\ yErr = "" /\ Len(yArgs) = 2
  /\ Render(yArgs[1]) = <<"t">> /\ Render(yArgs[2]) = <<":", "5", "3">>
  /\ yRet = << [LocalPort |-> 80, RemotePort |-> 80, Protocol |-> constantsProtocolTCP],
               [LocalPort |-> 0, RemotePort |-> 53, Protocol |-> constantsProtocolUDP] >>

\* a second spec that fails takes the first one's pair away
C19_NoPairsAfterFailure ==
  /\ ypc = "returned" /\ yErr = "invalid port" /\ yI = 2 /\ yRet = <<>>
  /\ Render(yArgs[1]) = <<"9", ":", "8", "0">>

(***************************************************************************)
(* Targets machine: parseTargetsFile over the lines of a targets file.  A  *)
(* line is a sequence of words and of " " for the white space between.     *)
(***************************************************************************)
MaxLines == 3

defaultListenAddr == "127.0.0.1"

\* the lines of the files, each with what it is meant to give: no target
\* (blank, comment), an error, or a target with the namespace and address
\* its own flags state ("" where it has no such flag)
TargetLines ==
  { [text |-> <<>>, gives |-> "nothing", ns |-> "", addr |-> "", resource |-> "", ports |-> <<>>],
    [text |-> <<" ">>, gives |-> "nothing", ns |-> "", addr |-> "", resource |-> "", ports |-> <<>>],
    [text |-> <<"#", " ", "-n", " ", "ns1", " ", "pod/a", " ", "80">>,
       gives |-> "nothing", ns |-> "", addr |-> "", resource |-> "", ports |-> <<>>],
    [text |-> <<" ", "//x", " ", "-l", " ", "0.0.0.0">>,
       gives |-> "nothing", ns |-> "", addr |-> "", resource |-> "", ports |-> <<>>],
    [text |-> <<"pod/a", " ", "80">>,
       gives |-> "target", ns |-> "", addr |-> "", resource |-> "pod/a", ports |-> <<"80">>],
    [text |-> <<"-n", " ", "ns1", " ", "svc/b", " ", "53", " ", "80">>,
       gives |-> "target", ns |-> "ns1", addr |-> "", resource |-> "svc/b", ports |-> <<"53", "80">>],
    [text |-> <<" ", "svc/b", " ", "-l", " ", "0.0.0.0", " ", "53", " ">>,
       gives |-> "target", ns |-> "", addr |-> "0.0.0.0", resource |-> "svc/b", ports |-> <<"53">>],
    [text |-> <<"-n=ns2", " ", "--address", " ", "0.0.0.0", " ", "ip/1.2.3.4", " ", "80">>,
       gives |-> "target", ns |-> "ns2", addr |-> "0.0.0.0", resource |-> "ip/1.2.3.4", ports |-> <<"80">>],
    [text |-> <<"pod/a">>, gives |-> "error", ns |-> "", addr |-> "", resource |-> "", ports |-> <<>>],
    [text |-> <<"pod/a", " ", "80", " ", "-n">>,
       gives |-> "error", ns |-> "", addr |-> "", resource |-> "", ports |-> <<>>],
    [text |-> <<"-x", " ", "pod/a", " ", "80">>,
       gives |-> "error", ns |-> "", addr |-> "", resource |-> "", ports |-> <<>>],
    [text |-> <<"-n", " ", "ns1", " ", "ip/bad", " ", "80">>,
       gives |-> "error", ns |-> "", addr |-> "", resource |-> "", ports |-> <<>>],
    [text |-> <<"-n", " ", "foo", " ", "8080">>,
       gives |-> "error", ns |-> "", addr |-> "", resource |-> "", ports |-> <<>>],
    [text |-> <<"ip/", " ", "80">>,
       gives |-> "error", ns |-> "", addr |-> "", resource |-> "", ports |-> <<>>],
    [text |-> <<"ip", " ", "80">>,
       gives |-> "panic", ns |-> "", addr |-> "", resource |-> "", ports |-> <<>>] }

RECURSIVE TrimLeft(_)
TrimLeft(line) == IF line # <<>> /\ Head(line) = " " THEN TrimLeft(Tail(line)) ELSE line

RECURSIVE TrimRight(_)
TrimRight(line) ==
  IF line # <<>> /\ line[Len(line)] = " " THEN TrimRight(SubSeq(line, 1, Len(line) - 1)) ELSE line

\* strings.TrimSpace
TrimSpace(line) == TrimRight(TrimLeft(line))

\* strings.HasPrefix(line, "//") and strings.HasPrefix(line, "#"), by the
\* first word of the line
HasPrefix(line, prefix) ==
  /\ line # <<>>
  /\ \/ prefix = "#" /\ line[1] \in {"#", "#x"}
     \/ prefix = "//" /\ line[1] \in {"//", "//x"}

IsWord(w) == w # " "

\* strings.Fields
Fields(line) == SelectSeq(line, IsWord)

\* the flags of the flag set: -n/--namespace and -l/--address, each with a
\* value that follows or is attached with '='
FlagOf(word) ==
  CASE word \in {"-n", "--namespace"} -> [isFlag |-> TRUE, name |-> "namespace", attached |-> FALSE, value |-> ""]
    [] word \in {"-l", "--address"} -> [isFlag |-> TRUE, name |-> "address", attached |-> FALSE, value |-> ""]
    [] word = "-n=ns2" -> [isFlag |-> TRUE, name |-> "namespace", attached |-> TRUE, value |-> "ns2"]
    [] word = "-x" -> [isFlag |-> TRUE, name |-> "unknown", attached |-> FALSE, value |-> ""]
    [] OTHER -> [isFlag |-> FALSE, name |-> "", attached |-> FALSE, value |-> ""]

SetFlag(st, name, value) ==
  IF name = "namespace" THEN [st EXCEPT !.ns = value] ELSE [st EXCEPT !.addr = value]

RECURSIVE FlagSetParse(_, _)
\* fs.Parse(fields), then fs.Args(): flags may stand anywhere on the line
FlagSetParse(words, st) ==
  IF words = <<>> \/ st.err # "" THEN st
  ELSE LET f == FlagOf(Head(words))
       IN  IF ~f.isFlag THEN FlagSetParse(Tail(words), [st EXCEPT !.remain = Append(@, Head(words))])
           ELSE IF f.name = "unknown" THEN [st EXCEPT !.err = "unknown shorthand flag"]
           ELSE IF f.attached THEN FlagSetParse(Tail(words), SetFlag(st, f.name, f.value))
           ELSE IF Len(words) = 1 THEN [st EXCEPT !.err = "flag needs an argument"]
           ELSE FlagSetParse(Tail(Tail(words)), SetFlag(st, f.name, words[2]))

\* strings.Split(fields[0], "/") for the resources of the model
ResourceParts(word) ==
  CASE word = "pod/a" -> <<"pod", "a">>
    [] word = "svc/b" -> <<"svc", "b">>
    [] word = "ip/1.2.3.4" -> <<"ip", "1.2.3.4">>
    [] word = "ip/bad" -> <<"ip", "bad">>
    [] word = "ip/" -> <<"ip", "">>
    [] OTHER -> <<word>>

\* resourceParts[1] in validateFields is read without a test of
\* len(resourceParts): for a resource without '/' the index is out of range
\* and the Go runtime panics
IndexOutOfRange(fields) ==
  /\ Len(fields) >= 2
  /\ Len(ResourceParts(fields[1])) <= 2
  /\ ResourceParts(fields[1])[1] = "ip"
  /\ Len(ResourceParts(fields[1])) < 2

\* validateFields, where it returns
validateFields(fields) ==
  IF Len(fields) < 2 THEN "invalid syntax"
  ELSE IF Len(ResourceParts(fields[1])) > 2 THEN "unknown resource"
  ELSE IF ResourceParts(fields[1])[1] = "ip" /\ Len(ResourceParts(fields[1])) = 2
            /\ ResourceParts(fields[1])[2] # "1.2.3.4" THEN "invalid IP address"
  ELSE ""

\* a parser that keeps the flag values of the line before
FlagsBeforeParse_Kept(ns, addr, defNs) == [ns |-> ns, addr |-> addr, remain |-> <<>>, err |-> ""]

\* ns = defaultNamespace; listenAddr = defaultListenAddr
FlagsBeforeParse(ns, addr, defNs) == [ns |-> defNs, addr |-> defaultListenAddr, remain |-> <<>>, err |-> ""]

TargetsInit ==
  /\ AlarmIdle
  /\ AcceptedIdle
  /\ PickIdle
  /\ LoopIdle
  /\ ConnIdle
  /\ PudpIdle
  /\ UdpIdle
  /\ AddrIdle
  /\ CodecIdle /\ ErrIdle /\ FrameIdle /\ FwdIdle /\ PortsIdle /\ ResIdle /\ RunIdle /\ SessIdle /\ SocksIdle /\ TcpIdle
  /\ zDefNs \in {"default", "dev"}
  /\ \E n \in 0..MaxLines : zFile \in [1..n -> TargetLines]
  /\ zLine = 0 /\ zNs = zDefNs /\ zAddr = defaultListenAddr
  /\ zRet = <<>> /\ zErr = "" /\ zpc = "scan"

\* one round of for s.Scan(): the line is skipped, or parsed into a target,
\* or parseTargetsFile returns nil and the error, or validateFields panics
\* and parseTargetsFile returns nothing
ScanLine ==
  /\ zpc = "scan" /\ zLine < Len(zFile)
  /\ zLine' = zLine + 1
  /\ LET line == TrimSpace(zFile[zLine + 1].text)
         fields == Fields(line)
         st == FlagSetParse(fields, FlagsBeforeParse(zNs, zAddr, zDefNs))
         verr == validateFields(st.remain)
     IN  IF Len(line) = 0 \/ HasPrefix(line, "//") \/ HasPrefix(line, "#")
           THEN UNCHANGED <<zNs, zAddr, zRet, zErr, zpc>>
         ELSE IF st.err # ""
           THEN /\ zpc' = "returned" /\ zErr' = st.err /\ zRet' = <<>>
                /\ zNs' = st.ns /\ zAddr' = st.addr
         ELSE IF IndexOutOfRange(st.remain)
           THEN /\ zpc' = "panicked"
                /\ zNs' = st.ns /\ zAddr' = st.addr
                /\ UNCHANGED <<zRet, zErr>>
         ELSE IF verr # ""
           THEN /\ zpc' = "returned" /\ zErr' = verr /\ zRet' = <<>>
                /\ zNs' = st.ns /\ zAddr' = st.addr
         ELSE /\ zRet' = Append(zRet, [resource |-> st.remain[1], ports |-> Tail(st.remain),
                                       namespace |-> st.ns, lisAddr |-> st.addr])
              /\ zNs' = st.ns /\ zAddr' = st.addr
              /\ UNCHANGED <<zErr, zpc>>
  /\ UNCHANGED <<zDefNs, zFile>>
  /\ UNCHANGED targetsOthers

\* s.Scan() returns false: return ret, nil
ScanEnd ==
  /\ zpc = "scan" /\ zLine = Len(zFile)
  /\ zpc' = "returned"
  /\ UNCHANGED <<zDefNs, zFile, zLine, zNs, zAddr, zRet, zErr>>
  /\ UNCHANGED targetsOthers

TargetsNext == ScanLine \/ ScanEnd

SpecTargets == TargetsInit /\ [][TargetsNext]_vars

\* the target a line is meant to give
TargetOf(l, defNs) ==
  [resource |-> l.resource, ports |-> l.ports,
   namespace |-> IF l.ns = "" THEN defNs ELSE l.ns,
   lisAddr |-> IF l.addr = "" THEN "127.0.0.1" ELSE l.addr]

RECURSIVE TargetsOf(_, _)
\* the targets the lines are meant to give, in file order
TargetsOf(lines, defNs) ==
  IF lines = <<>> THEN <<>>
  ELSE (IF Head(lines).gives = "target" THEN <<TargetOf(Head(lines), defNs)>> ELSE <<>>)
         \o TargetsOf(Tail(lines), defNs)

\* C20: each target gets the namespace and listen address of the flags on
\* its own line, or the defaults (the caller's namespace, 127.0.0.1); flags
\* of one line never affect a later line; blank lines and lines starting
\* with # or // give no target; the targets are in file order.
C20_TargetsPerLine ==
  /\ (zpc = "scan" \/ zErr = "") => zRet = TargetsOf(SubSeq(zFile, 1, zLine), zDefNs)
  /\ (zpc = "returned" /\ zErr = "") => zLine = Len(zFile)
  /\ (zpc = "returned" /\ zErr # "") => zFile[zLine].gives = "error"
  /\ \A i \in 1..zLine : zFile[i].gives = "error" => (i = zLine /\ zErr # "")

C20_Witness ==
  /\ zpc = "returned" /\ zErr = "" /\ zDefNs = "dev" /\ Len(zFile) = 3
  /\ zFile[1].ns = "ns2" /\ zFile[1].addr = "0.0.0.0"
  /\ zFile[2].text = <<"#", " ", "-n", " ", "ns1", " ", "pod/a", " ", "80">>
  /\ zFile[3].text = <<"pod/a", " ", "80">>
  /\ zRet = << [resource |-> "ip/1.2.3.4", ports |-> <<"80">>, namespace |-> "ns2", lisAddr |-> "0.0.0.0"],
               [resource |-> "pod/a", ports |-> <<"80">>, namespace |-> "dev", lisAddr |-> "127.0.0.1"] >>

\* the lines the validation is meant to refuse: a line that is no comment
\* and has fewer than two positional fields after the flags, or an unknown
\* flag, or a resource of kind ip without a NAME or with a NAME that is no
\* IP literal
InvalidLine(l, defNs) ==
  LET line == TrimSpace(l.text)
      st == FlagSetParse(Fields(line), FlagsBeforeParse(defNs, defaultListenAddr, defNs))
  IN  /\ ~(Len(line) = 0 \/ HasPrefix(line, "//") \/ HasPrefix(line, "#"))
      /\ \/ st.err = "unknown shorthand flag"
         \/ st.err = "" /\ Len(st.remain) < 2
         \/ st.err = "" /\ Len(st.remain) >= 2 /\ st.remain[1] \in {"ip", "ip/", "ip/bad"}

\* C21: whenever a line read so far has fewer than two positional fields
\* after flag parsing, an unknown flag, or a resource of kind ip whose NAME
\* is missing or is no IPv4/IPv6 literal, parseTargetsFile has returned an
\* error and no targets.
C21_InvalidLineGivesError ==
  \A i \in 1..zLine :
     InvalidLine(zFile[i], zDefNs) => (zpc = "returned" /\ zErr # "" /\ zRet = <<>>)

\* the same for every invalid line but the resource ip without /NAME
C21_ErrorUnlessBareIp ==
  \A i \in 1..zLine :
     (InvalidLine(zFile[i], zDefNs) /\ zFile[i].text # <<"ip", " ", "80">>)
        => (zpc = "returned" /\ zErr # "" /\ zRet = <<>>)

\* the three tested cases return their errors
C21_Witness ==
  /\ zpc = "returned" /\ Len(zFile) = 2 /\ zLine = 2 /\ zRet = <<>>
  /\ zFile[1].text = <<"pod/a", " ", "80">>
  /\ zFile[2].text = <<"-n", " ", "foo", " ", "8080">>
  /\ zErr = "invalid syntax"

\* the line `ip 80`: no error is returned, the program panics
C21_BareIpPanics ==
  /\ zpc = "panicked" /\ zErr = "" /\ zLine >= 1
  /\ zFile[zLine].text = <<"ip", " ", "80">>

(***************************************************************************)
(* Addr: building an address, rendering it and parsing the text again      *)
(***************************************************************************)
MaxCases == 2

\* the dotted form of four bytes
DottedQuad(b) ==
  ToString(b[1]) \o "." \o ToString(b[2]) \o "." \o ToString(b[3]) \o "." \o ToString(b[4])

\* the text of the 16-byte addresses of the model that are no IPv4 address
IPv6String(ip) ==
  CASE ip = <<253, 0>> \o Zeros(13) \o <<2>> -> "fd00::2"
    [] ip = <<255, 2>> \o Zeros(13) \o <<1>> -> "ff02::1"
    [] ip = Zeros(15) \o <<1>> -> "::1"
    [] OTHER -> "?"

\* net.IP.String: an address that To4 can shorten is written dotted, also
\* when it is held in 16 bytes
IPString(ip) ==
  IF Len(ip) = 0 THEN "<nil>"
  ELSE IF Len(ip) # 4 /\ Len(ip) # 16 THEN "?"
  ELSE IF Len(To4(ip)) = 4 THEN DottedQuad(To4(ip))
  ELSE IPv6String(ip)

\* Addr.String of an address of type AddrTypeIP
AddrString(a) == IPString(a.data)

\* the texts given to AddrFromIP
IPTexts ==
  {"10.0.0.1", "192.168.1.1", "::ffff:10.0.0.1", "fd00::2", "fd00:0::2", "ff02::1", "::1", "1.2.3", ""}

\* the 4-byte and 16-byte payloads given to AddrFromBytes
IPPayloads ==
  { <<10, 0, 0, 1>>, <<192, 168, 1, 1>>,
    <<253, 0>> \o Zeros(13) \o <<2>>, <<255, 2>> \o Zeros(13) \o <<1>>, Zeros(15) \o <<1>>,
    Zeros(10) \o <<255, 255, 10, 0, 0, 1>> }

AddrCases ==
  { [how |-> "AddrFromIP", text |-> t, data |-> <<>>] : t \in IPTexts }
    \cup { [how |-> "AddrFromBytes", text |-> "", data |-> b] : b \in IPPayloads }

AddrInit ==
  /\ AlarmIdle
  /\ AcceptedIdle
  /\ PickIdle
  /\ LoopIdle
  /\ ConnIdle
  /\ PudpIdle
  /\ UdpIdle
  /\ CodecIdle /\ ErrIdle /\ FrameIdle /\ FwdIdle /\ PortsIdle /\ ResIdle /\ RunIdle /\ SessIdle
  /\ SocksIdle /\ TargetsIdle /\ TcpIdle
  /\ \E n \in 1..MaxCases : vCases \in [1..n -> AddrCases]
  /\ vI = 0 /\ vA = [typ |-> 0, data |-> <<>>] /\ vStr = ""
  /\ vBack = [addr |-> [typ |-> 0, data |-> <<>>], err |-> ""] /\ vpc = "build"

\* addr := tc.getAddr(t): the address of the case is built; a case whose
\* AddrFromIP fails is over
AddrBuild ==
  /\ vpc = "build" /\ vI < Len(vCases)
  /\ LET c == vCases[vI + 1]
         r == AddrFromIP(c.text)
     IN  IF c.how = "AddrFromBytes"
           THEN vA' = AddrFromBytes(AddrTypeIP, c.data) /\ vpc' = "string" /\ vI' = vI + 1
         ELSE IF r.err = ""
           THEN vA' = r.addr /\ vpc' = "string" /\ vI' = vI + 1
         ELSE vI' = vI + 1 /\ UNCHANGED <<vA, vpc>>
  /\ UNCHANGED <<vCases, vStr, vBack>>
  /\ UNCHANGED addrOthers

\* addr.String()
AddrRender ==
  /\ vpc = "string"
  /\ vStr' = AddrString(vA) /\ vpc' = "parse"
  /\ UNCHANGED <<vCases, vI, vA, vBack>>
  /\ UNCHANGED addrOthers

\* AddrFromIP of the text
AddrParseBack ==
  /\ vpc = "parse"
  /\ vBack' = AddrFromIP(vStr) /\ vpc' = "compare"
  /\ UNCHANGED <<vCases, vI, vA, vStr>>
  /\ UNCHANGED addrOthers

\* the next case
AddrCaseEnd ==
  /\ vpc = "compare"
  /\ vpc' = "build"
  /\ UNCHANGED <<vCases, vI, vA, vStr, vBack>>
  /\ UNCHANGED addrOthers

AddrAllDone ==
  /\ vpc = "build" /\ vI = Len(vCases)
  /\ vpc' = "done"
  /\ UNCHANGED <<vCases, vI, vA, vStr, vBack>>
  /\ UNCHANGED addrOthers

AddrNext == AddrBuild \/ AddrRender \/ AddrParseBack \/ AddrCaseEnd \/ AddrAllDone

SpecAddr == AddrInit /\ [][AddrNext]_vars

\* a 16-byte payload that holds an IPv4 address
IPv4In16(a) == Len(a.data) = 16 /\ Len(To4(a.data)) = 4

\* C22: for every address of the IP variant, built by AddrFromIP or by
\* AddrFromBytes with a payload of 4 or 16 bytes, AddrFromIP of its String()
\* succeeds and returns an address with the same type and payload.
C22_StringRoundTrip ==
  vpc = "compare" => (vBack.err = "" /\ vBack.addr = vA)

\* the round trip of every address but an IPv4 address held in 16 bytes,
\* which comes back in 4 bytes
C22_RoundTripUnlessIPv4In16 ==
  vpc = "compare" =>
     /\ vBack.err = "" /\ vBack.addr.typ = vA.typ
     /\ IF IPv4In16(vA) THEN vBack.addr.data = To4(vA.data) ELSE vBack.addr.data = vA.data

\* an IPv6 address from the wire comes back as it was
C22_Witness ==
  /\ vpc = "compare" /\ vCases[vI].how = "AddrFromBytes"
  /\ vStr = "ff02::1" /\ vBack.err = ""
  /\ vBack.addr = [typ |-> AddrTypeIP, data |-> <<255, 2>> \o Zeros(13) \o <<1>>]
  /\ vBack.addr = vA

\* AddrFromBytes with the 16 bytes of ::ffff:10.0.0.1 comes back in 4 bytes
C22_MappedComesBackShort ==
  /\ vpc = "compare" /\ vCases[vI].how = "AddrFromBytes"
  /\ vA.data = Zeros(10) \o <<255, 255, 10, 0, 0, 1>>
  /\ vStr = "10.0.0.1" /\ vBack.err = ""
  /\ vBack.addr.data = <<10, 0, 0, 1>>

(***************************************************************************)
(* UDP listener: the loop of portForwarder.run for a UDP port, with        *)
(* conntrack, the cleaner goroutine and the handleUDPConn workers up to    *)
(* their return. Get() is the Getter interface's: it may return an error.  *)
(***************************************************************************)
MaxChans == 3

\* a table in which no lookup ever finds an entry
TrackMiss_Always(k) == k \in Keys

\* v, ok := track.Get(key); !ok
TrackMiss(k) == uTrack[k] = 0

\* the table after the loop gave up a new source whose Get() failed: the
\* entry made by track.Set before Get() stays
TrackAfterGetFailure(tr, k, ch) == [tr EXCEPT ![k] = ch]

Workers == 1..Len(uW)

\* the workers that have not yet sent their key on finish
Unfinished(w) == uW[w].pc # "done"

UdpInit ==
  /\ AlarmIdle
  /\ AcceptedIdle
  /\ PickIdle
  /\ LoopIdle
  /\ ConnIdle
  /\ PudpIdle
  /\ AddrIdle /\ CodecIdle /\ ErrIdle /\ FrameIdle /\ FwdIdle /\ PortsIdle /\ ResIdle /\ RunIdle
  /\ SessIdle /\ SocksIdle /\ TargetsIdle /\ TcpIdle
  /\ uTrack = [k \in Keys |-> 0] /\ uChans = 0 /\ uW = <<>>
  /\ ulpc = "read" /\ ulCh = 0 /\ ulKey = "none" /\ uLast = "none"
  /\ ucpc = "recv" /\ ucKey = "none"

\* a round of the loop for a source without entry, Get() succeeds:
\* ReadFrom, track.Get, make(chan), track.Set, Get(), go handleUDPConn
UdpNewFlow(k) ==
  /\ ulpc = "read" /\ TrackMiss(k)
  /\ uChans < MaxChans
  /\ uChans' = uChans + 1
  /\ uTrack' = [uTrack EXCEPT ![k] = uChans + 1]
  /\ uW' = Append(uW, [key |-> k, ch |-> uChans + 1, pc |-> "create", wr |-> "none"])
  /\ ulpc' = "send" /\ ulCh' = uChans + 1 /\ ulKey' = k /\ uLast' = "held"
  /\ UNCHANGED <<ucpc, ucKey>>
  /\ UNCHANGED udpOthers

\* a round of the loop for a source without entry, Get() fails: ReadFrom,
\* track.Get, make(chan), track.Set, Get(), continue
UdpGetFails(k) ==
  /\ ulpc = "read" /\ TrackMiss(k)
  /\ uChans < MaxChans
  /\ uChans' = uChans + 1
  /\ uTrack' = TrackAfterGetFailure(uTrack, k, uChans + 1)
  /\ ulKey' = k /\ uLast' = "dropped"
  /\ UNCHANGED <<uW, ulpc, ulCh, ucpc, ucKey>>
  /\ UNCHANGED udpOthers

\* a round of the loop for a source with an entry: ReadFrom, track.Get,
\* dataCh = v
UdpKnownFlow(k) ==
  /\ ulpc = "read" /\ ~TrackMiss(k)
  /\ ulpc' = "send" /\ ulCh' = uTrack[k] /\ ulKey' = k /\ uLast' = "held"
  /\ UNCHANGED <<uTrack, uChans, uW, ucpc, ucKey>>
  /\ UNCHANGED udpOthers

\* dataCh <- data: the channel has no buffer, the send completes when the
\* writer goroutine of the worker that holds the channel receives; its
\* WriteFull fails once the stream is closed, and it returns
UdpSend(w) ==
  /\ ulpc = "send" /\ uW[w].ch = ulCh /\ uW[w].wr = "run"
  /\ ulpc' = "read" /\ uLast' = "sent"
  /\ \E after \in (IF uW[w].pc = "serve" THEN {"run"} ELSE {"run", "exited"}) :
        uW' = [uW EXCEPT ![w].wr = after]
  /\ UNCHANGED <<uTrack, uChans, ulCh, ulKey, ucpc, ucKey>>
  /\ UNCHANGED udpOthers

\* handleUDPConn before its goroutines: createStream, the write of the
\* Header, the read of the Acknowledgement and its code; each may fail and
\* the worker returns, its deferred finish <- key waits for the cleaner
UdpWorkerStep(w) ==
  /\ uW[w].pc \in {"create", "hdr", "ack"}
  /\ \/ uW' = [uW EXCEPT ![w].pc = "finish"]
     \/ uW[w].pc = "create" /\ uW' = [uW EXCEPT ![w].pc = "hdr"]
     \/ uW[w].pc = "hdr" /\ uW' = [uW EXCEPT ![w].pc = "ack"]
     \/ uW[w].pc = "ack" /\ uW' = [uW EXCEPT ![w].pc = "serve", ![w].wr = "run"]
  /\ UNCHANGED <<uTrack, uChans, ulpc, ulCh, ulKey, uLast, ucpc, ucKey>>
  /\ UNCHANGED udpOthers

\* err = <-errorChan: the error stream ended, the worker returns
UdpFlowEnds(w) ==
  /\ uW[w].pc = "serve"
  /\ uW' = [uW EXCEPT ![w].pc = "finish"]
  /\ UNCHANGED <<uTrack, uChans, ulpc, ulCh, ulKey, uLast, ucpc, ucKey>>
  /\ UNCHANGED udpOthers

\* the writer goroutine: case <-upClosed: return, after the stream ended
UdpWriterExit(w) ==
  /\ uW[w].wr = "run" /\ uW[w].pc \in {"finish", "done"}
  /\ uW' = [uW EXCEPT ![w].wr = "exited"]
  /\ UNCHANGED <<uTrack, uChans, ulpc, ulCh, ulKey, uLast, ucpc, ucKey>>
  /\ UNCHANGED udpOthers

\* for key := range finish: the cleaner receives the key of a worker
UdpCleanerRecv(w) ==
  /\ ucpc = "recv" /\ uW[w].pc = "finish"
  /\ uW' = [uW EXCEPT ![w].pc = "done"]
  /\ ucpc' = "del" /\ ucKey' = uW[w].key
  /\ UNCHANGED <<uTrack, uChans, ulpc, ulCh, ulKey, uLast>>
  /\ UNCHANGED udpOthers

\* track.Delete(key)
UdpCleanerDelete ==
  /\ ucpc = "del"
  /\ uTrack' = [uTrack EXCEPT ![ucKey] = 0]
  /\ ucpc' = "recv" /\ ucKey' = "none"
  /\ UNCHANGED <<uChans, uW, ulpc, ulCh, ulKey, uLast>>
  /\ UNCHANGED udpOthers

UdpNext ==
  \/ \E k \in Keys : UdpNewFlow(k)
  \/ \E k \in Keys : UdpGetFails(k)
  \/ \E k \in Keys : UdpKnownFlow(k)
  \/ \E w \in Workers : UdpSend(w)
  \/ \E w \in Workers : UdpWorkerStep(w)
  \/ \E w \in Workers : UdpFlowEnds(w)
  \/ \E w \in Workers : UdpWriterExit(w)
  \/ \E w \in Workers : UdpCleanerRecv(w)
  \/ UdpCleanerDelete

SpecUdp == UdpInit /\ [][UdpNext]_vars

\* every goroutine that can take a step is scheduled: the listener's send
\* when a writer receives, the workers up to their return, the writers and
\* the cleaner
SpecUdpFair ==
  /\ SpecUdp
  /\ WF_vars(\E w \in Workers : UdpSend(w))
  /\ WF_vars(\E w \in Workers : UdpWorkerStep(w))
  /\ WF_vars(\E w \in Workers : UdpWriterExit(w))
  /\ WF_vars(\E w \in Workers : UdpCleanerRecv(w))
  /\ WF_vars(UdpCleanerDelete)

\* the worker on channel c returned before it started its goroutines
EndedEarly(c) ==
  \E w \in Workers : uW[w].ch = c /\ uW[w].pc \in {"finish", "done"} /\ uW[w].wr = "none"

\* C23: after a worker returned because createStream, the Header write, the
\* Ack read or the Ack code failed, the conntrack entry of its source is
\* eventually removed and the listener is back at reading datagrams; the
\* listener never stays blocked sending on a channel without receiver.
C23_EarlyEndFreesListener ==
  \A c \in 1..MaxChans :
     EndedEarly(c) ~> ((\A k \in Keys : uTrack[k] # c) /\ ulpc = "read")

\* the part that holds: the entry of a worker that returned early is
\* eventually removed
C23_EntryRemoved ==
  \A c \in 1..MaxChans : EndedEarly(c) ~> (\A k \in Keys : uTrack[k] # c)

\* the listener holds the first datagram of a source whose worker has
\* returned early and whose entry is removed: no goroutine receives
C23_ListenerStuck ==
  /\ ulpc = "send" /\ EndedEarly(ulCh)
  /\ \E w \in Workers : uW[w].ch = ulCh /\ uW[w].pc = "done"
  /\ uTrack[ulKey] = 0 /\ ucpc = "recv"

\* C24: at every moment there is at most one unfinished worker per source
\* key, and while there is one the conntrack entry of the key holds the
\* channel this worker receives from; an entry is never replaced while it
\* is present.
C24_OneWorkerPerKey ==
  /\ [](\A w, x \in Workers :
          (Unfinished(w) /\ Unfinished(x) /\ uW[w].key = uW[x].key) => w = x)
  /\ [](\A w \in Workers : Unfinished(w) => uTrack[uW[w].key] = uW[w].ch)
  /\ [][\A k \in Keys : uTrack[k] # 0 => uTrack'[k] \in {uTrack[k], 0}]_vars

\* a source whose first worker has finished and whose entry was removed
\* has a second worker, on the channel of its new entry
C24_Witness ==
  \E w, x \in Workers :
     /\ w < x /\ uW[w].key = uW[x].key
     /\ ~Unfinished(w) /\ Unfinished(x) /\ uW[x].pc = "serve"
     /\ uTrack[uW[x].key] = uW[x].ch /\ uW[x].ch # uW[w].ch
     /\ ucpc = "recv" /\ uLast = "sent"

C25_DroppedWithoutWorker ==
  uLast = "dropped" => (ulpc = "read" /\ \A w \in Workers : uW[w].ch # uChans)

MaxFrames == 2

MaxReplies == 1

\* the payloads of the client's datagrams
ClientPayloads == { <<>>, <<7>>, <<9, 0, 1>> }

RECURSIVE FramedStream(_)
\* the stream the client writes: each datagram as UDPConn.ReadFrom frames it
FramedStream(payloads) ==
  IF payloads = <<>> THEN <<>>
  ELSE UDPConnRead(Head(payloads), UDPBufferSize) \o FramedStream(Tail(payloads))

\* a ReadFull that keeps the bytes it has read when its deadline expires
BytesKeptAfterTimeout_All(got) == got

\* io.ReadFull returns the timeout error; the bytes it has read stay in
\* lengthBuf or buf and the next ReadUDPFromStream starts anew
BytesKeptAfterTimeout(got) == <<>>

\* the number of bytes the ReadFull in progress asks for
Wanted == IF xd = "len" THEN 2 ELSE Uint16(xBuf)

PudpInit ==
  /\ AlarmIdle
  /\ AcceptedIdle
  /\ PickIdle
  /\ LoopIdle
  /\ ConnIdle
  /\ AddrIdle /\ CodecIdle /\ ErrIdle /\ FrameIdle /\ FwdIdle /\ PortsIdle /\ ResIdle /\ RunIdle
  /\ SessIdle /\ SocksIdle /\ TargetsIdle /\ TcpIdle /\ UdpIdle
  /\ xFrames \in SeqsUpTo(ClientPayloads, MaxFrames)
  /\ xWire = FramedStream(xFrames) /\ xRcv = <<>>
  /\ xd = "len" /\ xGot = <<>> /\ xBuf = <<>> /\ xUp = <<>>
  /\ xu = "read" /\ xReplies = MaxReplies /\ xDown = 0
  /\ xDone = FALSE /\ xResetCalls = 0 /\ xArmed = 0
  /\ xClosed = {} /\ xm = "select"

\* the network delivers the next bytes of the stream: one byte or all that
\* is left, so that pieces of every size arrive between two reads
NetDeliver ==
  /\ xWire # <<>>
  /\ \E k \in {1, Len(xWire)} :
        /\ xRcv' = xRcv \o Take(xWire, k)
        /\ xWire' = Drop(xWire, k)
  /\ UNCHANGED <<xFrames, xd, xGot, xBuf, xUp, xu, xReplies, xDown, xDone, xResetCalls, xArmed, xClosed, xm>>
  /\ UNCHANGED pudpOthers

\* Alarm.Start's goroutine: case <-t.C: close(a.done)
PudpAlarmFire ==
  /\ ~xDone /\ xm # "returned"
  /\ xDone' = TRUE
  /\ UNCHANGED <<xFrames, xWire, xRcv, xd, xGot, xBuf, xUp, xu, xReplies, xDown, xResetCalls, xArmed, xClosed, xm>>
  /\ UNCHANGED pudpOthers

\* one Read inside io.ReadFull: it takes the bytes that have arrived, up
\* to what is wanted. A full length prefix is decoded and the ReadFull of
\* the payload begins (it returns at once for length 0); a full payload is
\* what ReadUDPFromStream returns.
DownRead ==
  /\ xd \in {"len", "payload"} /\ xRcv # <<>> /\ "down" \notin xClosed
  /\ LET k == Min(Len(xRcv), Wanted - Len(xGot))
         got == xGot \o Take(xRcv, k)
     IN  /\ xRcv' = Drop(xRcv, k)
         /\ IF Len(got) < Wanted
              THEN xGot' = got /\ UNCHANGED <<xd, xBuf>>
            ELSE IF xd = "len"
              THEN /\ xGot' = <<>>
                   /\ IF Uint16(got) = 0 THEN xd' = "write" /\ xBuf' = <<>>
                                          ELSE xd' = "payload" /\ xBuf' = got
            ELSE xGot' = <<>> /\ xBuf' = got /\ xd' = "write"
  /\ UNCHANGED <<xFrames, xWire, xUp, xu, xReplies, xDown, xDone, xResetCalls, xArmed, xClosed, xm>>
  /\ UNCHANGED pudpOthers

\* the 5 s deadline of the ReadFull expires while it waits for bytes:
\* ReadUDPFromStream returns the timeout error
DownTimeout ==
  /\ xd \in {"len", "payload"} /\ xRcv = <<>> /\ "down" \notin xClosed
  /\ IF BrokerContinues(TRUE, xDone)
       THEN xd' = "len" /\ xGot' = BytesKeptAfterTimeout(xGot) /\ xBuf' = <<>>
       ELSE xd' = "exited" /\ xGot' = <<>> /\ xBuf' = <<>>
  /\ UNCHANGED <<xFrames, xWire, xRcv, xUp, xu, xReplies, xDown, xDone, xResetCalls, xArmed, xClosed, xm>>
  /\ UNCHANGED pudpOthers

\* the read fails with an error that is no timeout: the client closed the
\* stream or ProxyUDP called CloseRead
DownReadError ==
  /\ xd \in {"len", "payload"}
  /\ "down" \in xClosed \/ (xRcv = <<>> /\ xWire = <<>>)
  /\ BrokerContinues(FALSE, xDone) = FALSE
  /\ xd' = "exited" /\ xGot' = <<>> /\ xBuf' = <<>>
  /\ UNCHANGED <<xFrames, xWire, xRcv, xUp, xu, xReplies, xDown, xDone, xResetCalls, xArmed, xClosed, xm>>
  /\ UNCHANGED pudpOthers

\* Alarm.Reset: the timer is set again unless done is closed
AlarmReset ==
  /\ xResetCalls' = xResetCalls + 1
  /\ xArmed' = IF xDone THEN xArmed ELSE xArmed + 1

\* xio.WriteFull(upConn, buf[:n]) succeeds; a.Reset()
DownWrite ==
  /\ xd = "write" /\ "up" \notin xClosed
  /\ xUp' = Append(xUp, xBuf) /\ xBuf' = <<>> /\ xd' = "len"
  /\ AlarmReset
  /\ UNCHANGED <<xFrames, xWire, xRcv, xGot, xu, xReplies, xDown, xDone, xClosed, xm>>
  /\ UNCHANGED pudpOthers

\* xio.WriteFull(upConn, buf[:n]) fails
DownWriteError ==
  /\ xd = "write"
  /\ xd' = "exited" /\ xBuf' = <<>>
  /\ UNCHANGED <<xFrames, xWire, xRcv, xGot, xUp, xu, xReplies, xDown, xDone, xResetCalls, xArmed, xClosed, xm>>
  /\ UNCHANGED pudpOthers

\* readConnWithTimeout(upConn, buf, 5 s) returns a datagram
UpRead ==
  /\ xu = "read" /\ xReplies > 0 /\ "up" \notin xClosed
  /\ xReplies' = xReplies - 1 /\ xu' = "write"
  /\ UNCHANGED <<xFrames, xWire, xRcv, xd, xGot, xBuf, xUp, xDown, xDone, xResetCalls, xArmed, xClosed, xm>>
  /\ UNCHANGED pudpOthers

\* the read of upConn times out
UpTimeout ==
  /\ xu = "read" /\ xReplies = 0 /\ "up" \notin xClosed
  /\ xu' = IF BrokerContinues(TRUE, xDone) THEN "read" ELSE "exited"
  /\ UNCHANGED <<xFrames, xWire, xRcv, xd, xGot, xBuf, xUp, xReplies, xDown, xDone, xResetCalls, xArmed, xClosed, xm>>
  /\ UNCHANGED pudpOthers

\* the read of upConn fails with an error that is no timeout
UpReadError ==
  /\ xu = "read"
  /\ BrokerContinues(FALSE, xDone) = FALSE
  /\ xu' = "exited"
  /\ UNCHANGED <<xFrames, xWire, xRcv, xd, xGot, xBuf, xUp, xReplies, xDown, xDone, xResetCalls, xArmed, xClosed, xm>>
  /\ UNCHANGED pudpOthers

\* xio.WriteFull(downConn, buf[:n]) succeeds; a.Reset()
UpWrite ==
  /\ xu = "write"
  /\ xDown' = xDown + 1 /\ xu' = "read"
  /\ AlarmReset
  /\ UNCHANGED <<xFrames, xWire, xRcv, xd, xGot, xBuf, xUp, xReplies, xDone, xClosed, xm>>
  /\ UNCHANGED pudpOthers

\* xio.WriteFull(downConn, buf[:n]) fails
UpWriteError ==
  /\ xu = "write"
  /\ xu' = "exited"
  /\ UNCHANGED <<xFrames, xWire, xRcv, xd, xGot, xBuf, xUp, xReplies, xDown, xDone, xResetCalls, xArmed, xClosed, xm>>
  /\ UNCHANGED pudpOthers

\* ProxyUDP's select: case <-downClosed: upConn.Close();
\* case <-upClosed: downConn.CloseRead()
PudpSelect ==
  /\ xm = "select"
  /\ \/ xd = "exited" /\ xClosed' = xClosed \cup {"up"}
     \/ xu = "exited" /\ xClosed' = xClosed \cup {"down"}
  /\ xm' = "wait"
  /\ UNCHANGED <<xFrames, xWire, xRcv, xd, xGot, xBuf, xUp, xu, xReplies, xDown, xDone, xResetCalls, xArmed>>
  /\ UNCHANGED pudpOthers

\* <-waitFor
PudpReturn ==
  /\ xm = "wait" /\ xd = "exited" /\ xu = "exited"
  /\ xm' = "returned"
  /\ UNCHANGED <<xFrames, xWire, xRcv, xd, xGot, xBuf, xUp, xu, xReplies, xDown, xDone, xResetCalls, xArmed, xClosed>>
  /\ UNCHANGED pudpOthers

PudpNext ==
  \/ NetDeliver \/ PudpAlarmFire
  \/ DownRead \/ DownTimeout \/ DownReadError \/ DownWrite \/ DownWriteError
  \/ UpRead \/ UpTimeout \/ UpReadError \/ UpWrite \/ UpWriteError
  \/ PudpSelect \/ PudpReturn

SpecPudp == PudpInit /\ [][PudpNext]_vars

RECURSIVE IsSubsequence(_, _)
\* a is b with some of its items left out
IsSubsequence(a, b) ==
  IF a = <<>> THEN TRUE
  ELSE IF b = <<>> THEN FALSE
  ELSE IF Head(a) = Head(b) THEN IsSubsequence(Tail(a), Tail(b))
  ELSE IsSubsequence(a, Tail(b))

\* C26: every payload written upstream is one of the payloads the client
\* framed, and they are written in the order in which they were framed,
\* also when a read deadline expires after part of a frame was read.
C26_UpstreamPayloadsAreFramedOnes == IsSubsequence(xUp, xFrames)

\* the part that holds: as long as no deadline expired inside a frame,
\* the payloads written are the first ones framed
C26_Witness ==
  /\ xFrames = << <<9, 0, 1>>, <<7>> >> /\ xUp = xFrames /\ xd = "len" /\ xRcv = <<>>

\* the payload <<0>>, which the client never framed, is written upstream
C26_ForeignPayload ==
  /\ xFrames = << <<9, 0, 1>>, <<7>> >> /\ xUp = << <<0>> >>

\* C29: a broker whose read times out continues iff the alarm has not
\* fired; it exits on a timeout after the alarm fired and on every other
\* read error and every write error, and for no other reason. a.Reset() is
\* called after each datagram written in either direction and at no other
\* time; it sets the timer again unless the alarm has fired.
C29_TimeoutsAndResets ==
  [][ /\ DownTimeout => ((xd' # "exited") <=> ~xDone)
      /\ UpTimeout => ((xu' # "exited") <=> ~xDone)
      /\ (DownReadError \/ DownWriteError) => xd' = "exited"
      /\ (UpReadError \/ UpWriteError) => xu' = "exited"
      /\ (xd # "exited" /\ xd' = "exited")
            => ((DownTimeout /\ xDone) \/ DownReadError \/ DownWriteError)
      /\ (xu # "exited" /\ xu' = "exited")
            => ((UpTimeout /\ xDone) \/ UpReadError \/ UpWriteError)
      /\ xResetCalls' \in {xResetCalls, xResetCalls + 1}
      /\ (xResetCalls' = xResetCalls + 1) <=> (Len(xUp') + xDown' = Len(xUp) + xDown + 1)
      /\ Len(xUp') + xDown' >= Len(xUp) + xDown
      /\ xArmed' = IF xResetCalls' # xResetCalls /\ ~xDone THEN xArmed + 1 ELSE xArmed ]_vars

\* a datagram went each way and the timer was set again twice; then the
\* alarm fired and the downstream broker left on its next timeout, with
\* the stream open and bytes still to come
C29_Witness ==
  /\ xDone /\ xd = "exited" /\ xu = "read" /\ xm = "select"
  /\ Len(xFrames) = 2 /\ xUp = <<xFrames[1]>> /\ xDown = 1
  /\ xResetCalls = 2 /\ xArmed = 2
  /\ xWire # <<>> /\ xRcv = <<>>

(***************************************************************************)
(* UDPConn.Read / UDPConn.ReadFrom: the count and the length prefix        *)
(***************************************************************************)
MaxReads == 2

\* sizes of the datagrams on the socket, around the limits of one and of
\* two length bytes and of the buffer
DatagramSizes == {0, 1, 255, 256, 1472, 65507, 65535, 65536, 65537}

\* c.UDPConn.Read(buf[2:]) / c.UDPConn.ReadFrom(buf[2:]): the socket gives
\* the datagram, cut to the room after the prefix
SocketRead(size, bufLen) == Min(size, bufLen - 2)

ConnInit ==
  /\ AlarmIdle
  /\ AcceptedIdle
  /\ PickIdle
  /\ LoopIdle
  /\ AddrIdle /\ CodecIdle /\ ErrIdle /\ FrameIdle /\ FwdIdle /\ PortsIdle /\ PudpIdle /\ ResIdle
  /\ RunIdle /\ SessIdle /\ SocksIdle /\ TargetsIdle /\ TcpIdle /\ UdpIdle
  /\ jIn \in SeqsUpTo(DatagramSizes, MaxReads)
  /\ jI = 0 /\ jHow = "none" /\ jN = 0 /\ jPre = <<>> /\ jRet = 0

\* UDPConn.Read on a buffer of UDPBufferSize bytes
ConnRead ==
  /\ jI < Len(jIn)
  /\ jI' = jI + 1 /\ jHow' = "Read"
  /\ jN' = SocketRead(jIn[jI + 1], UDPBufferSize)
  /\ jPre' = FrameLength(jN')
  /\ jRet' = jN' + 2
  /\ UNCHANGED jIn
  /\ UNCHANGED connOthers

\* UDPConn.ReadFrom on a buffer of UDPBufferSize bytes
ConnReadFrom ==
  /\ jI < Len(jIn)
  /\ jI' = jI + 1 /\ jHow' = "ReadFrom"
  /\ jN' = SocketRead(jIn[jI + 1], UDPBufferSize)
  /\ jPre' = FrameLength(jN')
  /\ jRet' = jN' + 2
  /\ UNCHANGED jIn
  /\ UNCHANGED connOthers

ConnNext == ConnRead \/ ConnReadFrom

SpecConn == ConnInit /\ [][ConnNext]_vars

\* C27: for every datagram of n bytes, 0 <= n <= 65536, that Read or
\* ReadFrom returns into a buffer of UDPBufferSize bytes, the two prefix
\* bytes decode big-endian to n and the returned count is n + 2.
C27_PrefixIsPayloadLength ==
  jI > 0 => (jN \in 0..65536 /\ Uint16(jPre) = jN /\ jRet = jN + 2)

\* the same for the lengths that two bytes can hold
C27_PrefixExactUpTo65535 ==
  (jI > 0 /\ jN <= 65535) => (Uint16(jPre) = jN /\ jRet = jN + 2)

\* the largest datagram of IPv4 is framed exactly
C27_Witness ==
  /\ jI = 2 /\ jHow = "ReadFrom" /\ jIn[2] = 65507
  /\ jN = 65507 /\ jPre = <<255, 227>> /\ jRet = 65509

\* a datagram that fills the buffer: the prefix says 0, the count 65538
C27_FullBufferWraps ==
  /\ jI > 0 /\ jN = 65536 /\ jPre = <<0, 0>> /\ jRet = 65538

\* the total length the header on the reader states
StatedTotalLen == Uint16(SubSeq(hRd, 2, 3))

\* C28: FromReader accepts a header only if its stated total length is
\* between 12 and 267 (12 + 255); a header that states more is rejected.
C28_TotalLenWithinBounds ==
  (hpc \in {"decoded", "rawDecoded"} /\ hRes.err = "") => StatedTotalLen \in 12..267

\* the lower bound, which FromReader tests
C28_TotalLenAtLeast12 ==
  (hpc \in {"decoded", "rawDecoded"} /\ hRes.err = "") => StatedTotalLen >= 12

\* a header of 267 bytes is accepted
C28_Witness ==
  /\ hpc = "rawDecoded" /\ hRes.err = "" /\ StatedTotalLen = 267 /\ Len(hRd) = 267
  /\ Len(hRes.hdr.Addr.data) = 255 /\ hRes.n = 267

\* a header of 268 bytes is accepted, with an address of 256 bytes
C28_LongHeaderAccepted ==
  /\ hpc = "rawDecoded" /\ hRes.err = "" /\ StatedTotalLen = 268 /\ Len(hRd) = 268
  /\ Len(hRes.hdr.Addr.data) = 256 /\ hRes.n = 268

C30_LingerAfterUpstreamFirst ==
  /\ tM = "wait" /\ tFirst = "up" /\ tWait = "up" /\ tLinger = {"up"}

\* C31: a broker that has stopped copying has closed the write side of its
\* destination and nothing else, so the connection it read from is still
\* open and the opposite direction can still write to it.
C31_ExitLeavesSourceOpen ==
  \A c \in Conns : tB[c] = "done" => c \notin tClosed

\* what the brokers do: a broker that has ended has closed the connection
\* it read from, no connection is closed otherwise, and CloseRead is called
\* by ProxyTCP only
C31_ExitClosesSource ==
  /\ \A c \in Conns : tB[c] = "done" <=> c \in tClosed
  /\ tM = "select" => tRdClosed = {}

\* the client has sent everything and its broker has ended; the broker of
\* the other direction holds bytes of the destination that it has read and
\* cannot write, downConn being closed
C31_OppositeDirectionCut ==
  /\ tB["down"] = "done" /\ "down" \in tClosed /\ tM = "select"
  /\ tRead["down"] = tWritten["down"]
  /\ tB["up"] = "write" /\ tN["up"] > 0 /\ tSrc["up"] # <<>>

(***************************************************************************)
(* Accept loops: the TCP and the UDP loop of portForwarder.run and the     *)
(* loop of runSOCKS5Server, with the tunnel and the command's Run.         *)
(***************************************************************************)
MaxAccepts == 3

LoopKinds == {"tcp", "udp", "socks5"}

LoopInit ==
  /\ AlarmIdle
  /\ AcceptedIdle
  /\ PickIdle
  /\ AddrIdle /\ CodecIdle /\ ConnIdle /\ ErrIdle /\ FrameIdle /\ FwdIdle /\ PortsIdle
  /\ PudpIdle /\ ResIdle /\ RunIdle /\ SessIdle /\ SocksIdle /\ TargetsIdle /\ TcpIdle
  /\ UdpIdle
  /\ bKind \in LoopKinds
  /\ bTunnel = "open" /\ bRun = "wait" /\ bpc = "poll" /\ bListener = "open"
  /\ bTaken = 0 /\ bHanded = 0 /\ bLate = 0

\* a loop that never looks at the tunnel
TunnelClosedSeen_Never(t) == FALSE

\* select { case <-streamConn.CloseChan(): return; default: }
TunnelClosedSeen(t) == t = "closed"

\* defer l.Close() and defer pc.Close() of portForwarder.run;
\* runSOCKS5Server leaves its listener to proxyOptions.Run
ListenerAfterReturn(kind, l) == IF kind = "socks5" THEN l ELSE "closed"

\* the select at the head of each loop
LoopPoll ==
  /\ bpc = "poll"
  /\ IF TunnelClosedSeen(bTunnel)
       THEN bpc' = "returned" /\ bListener' = ListenerAfterReturn(bKind, bListener)
       ELSE bpc' = "accept" /\ UNCHANGED bListener
  /\ UNCHANGED <<bKind, bTunnel, bRun, bTaken, bHanded, bLate>>
  /\ UNCHANGED loopOthers

\* l.Accept() returns a connection, udpConn.ReadFrom(buf) a datagram: of a
\* new source, or of a source that has an entry in the table
LoopAccept ==
  /\ bpc = "accept" /\ bListener = "open" /\ bTaken < MaxAccepts
  /\ bTaken' = bTaken + 1
  /\ \E known \in BOOLEAN :
       /\ known => (bKind = "udp" /\ bTaken > 0)
       /\ bpc' = IF bKind = "socks5" THEN "go" ELSE IF known THEN "send" ELSE "get"
  /\ UNCHANGED <<bKind, bTunnel, bRun, bListener, bHanded, bLate>>
  /\ UNCHANGED loopOthers

\* l.Accept() or udpConn.ReadFrom(buf) fails: return
LoopAcceptError ==
  /\ bpc = "accept"
  /\ bpc' = "returned" /\ bListener' = ListenerAfterReturn(bKind, bListener)
  /\ UNCHANGED <<bKind, bTunnel, bRun, bTaken, bHanded, bLate>>
  /\ UNCHANGED loopOthers

\* p.addrGetter.Get() fails: continue
LoopGetFails ==
  /\ bpc = "get"
  /\ bpc' = "poll"
  /\ UNCHANGED <<bKind, bTunnel, bRun, bListener, bTaken, bHanded, bLate>>
  /\ UNCHANGED loopOthers

\* p.addrGetter.Get() succeeds
LoopGet ==
  /\ bpc = "get"
  /\ bpc' = "go"
  /\ UNCHANGED <<bKind, bTunnel, bRun, bListener, bTaken, bHanded, bLate>>
  /\ UNCHANGED loopOthers

\* go handleTCPConn(c, ...), go handleSOCKS5Conn(c, streamConn): the
\* connection is the worker's; go handleUDPConn(...): the datagram follows
\* on dataCh
LoopGo ==
  /\ bpc = "go"
  /\ IF bKind = "udp"
       THEN bpc' = "send" /\ UNCHANGED <<bHanded, bLate>>
       ELSE /\ bpc' = "poll"
            /\ bHanded' = bHanded + 1
            /\ bLate' = IF bTunnel = "closed" THEN bLate + 1 ELSE bLate
  /\ UNCHANGED <<bKind, bTunnel, bRun, bListener, bTaken>>
  /\ UNCHANGED loopOthers

\* dataCh <- data: the worker of the source receives the datagram
LoopSend ==
  /\ bpc = "send"
  /\ bpc' = "poll"
  /\ bHanded' = bHanded + 1
  /\ bLate' = IF bTunnel = "closed" THEN bLate + 1 ELSE bLate
  /\ UNCHANGED <<bKind, bTunnel, bRun, bListener, bTaken>>
  /\ UNCHANGED loopOthers

\* dataCh <- data when the worker of the source has ended: no goroutine
\* receives from dataCh and the loop stays at the send
LoopSendBlocks ==
  /\ bpc = "send"
  /\ bpc' = "blocked"
  /\ UNCHANGED <<bKind, bTunnel, bRun, bListener, bTaken, bHanded, bLate>>
  /\ UNCHANGED loopOthers

\* the tunnel terminates: CloseChan() is closed
LoopTunnelClose ==
  /\ bTunnel = "open"
  /\ bTunnel' = "closed"
  /\ UNCHANGED <<bKind, bRun, bpc, bListener, bTaken, bHanded, bLate>>
  /\ UNCHANGED loopOthers

\* Run's select takes CloseChan() or ctx.Done() and Run returns: its
\* deferred calls close the tunnel and, in proxyOptions.Run, the listener
LoopRunReturn ==
  /\ bRun = "wait"
  /\ bRun' = "returned"
  /\ bTunnel' = "closed"
  /\ bListener' = IF bKind = "socks5" THEN "closed" ELSE bListener
  /\ UNCHANGED <<bKind, bpc, bTaken, bHanded, bLate>>
  /\ UNCHANGED loopOthers

LoopNext ==
  \/ LoopPoll
  \/ LoopAccept
  \/ LoopAcceptError
  \/ LoopGetFails
  \/ LoopGet
  \/ LoopGo
  \/ LoopSend
  \/ LoopSendBlocks
  \/ LoopTunnelClose
  \/ LoopRunReturn

SpecLoop == LoopInit /\ [][LoopNext]_vars

\* the loop's goroutine runs when it can take a step, and Run's select
\* returns once CloseChan() is closed; connections and datagrams need not
\* arrive, and a send on dataCh need not find a receiver
SpecLoopFair ==
  /\ SpecLoop
  /\ WF_vars(LoopPoll) /\ WF_vars(LoopGet \/ LoopGetFails) /\ WF_vars(LoopGo)
  /\ WF_vars(LoopRunReturn /\ bTunnel = "closed")

\* C32: each loop polls the tunnel-closed signal before every accept or
\* datagram read; an iteration that observes the signal returns without
\* accepting, and the listener is closed; after the tunnel has closed at
\* most one further connection or datagram is handed to a worker.
C32_PollBeforeEveryAccept ==
  /\ [](bLate <= 1)
  /\ [][(bpc' = "accept" /\ bpc # "accept") => (bpc = "poll" /\ bTunnel = "open")]_vars
  /\ [][bTaken' # bTaken => (bpc = "accept" /\ bpc' # "accept")]_vars
  /\ [][(bpc = "poll" /\ bTunnel = "closed" /\ bpc' # "poll")
          => /\ bpc' = "returned" /\ bTaken' = bTaken /\ bHanded' = bHanded
             /\ bKind # "socks5" => bListener' = "closed"]_vars
  /\ (bpc = "returned" /\ bTunnel = "closed") ~> (bListener = "closed")

\* a connection accepted after the tunnel closed went to a worker, the
\* next poll saw the signal, the loop returned and the listener is closed
C32_Witness ==
  /\ bLate = 1 /\ bHanded = 2 /\ bTaken = 2
  /\ bpc = "returned" /\ bTunnel = "closed" /\ bListener = "closed"

(***************************************************************************)
(* updatePodIP machine: one call of dynamicAddr.updatePodIP on a list of   *)
(* pods, beside a goroutine that reads the cache under the read lock.      *)
(***************************************************************************)
MaxCreated == 2

PickNames == {"p1", "p2", "p3"}

PickPhases == {"Pending", "Running", "Failed"}

\* pod.Status.PodIP of the pods of this machine
PickIPOf(name) ==
  CASE name = "p1" -> "10.0.0.1" [] name = "p2" -> "fd00::2" [] OTHER -> "192.168.1.1"

\* the pair updatePodIP stores for a pod
CachedPair(name) == [name |-> name, addr |-> AddrFromIP(PickIPOf(name)).addr]

NoPair == [name |-> "", addr |-> [typ |-> 0, data |-> <<>>]]

NoPod == [name |-> "", phase |-> "", created |-> 0]

\* the lists a List call can return: pods of different names in any order
PodLists ==
  { l \in UNION { [1..n -> [name : PickNames, phase : PickPhases, created : 1..MaxCreated]] :
                  n \in 0..Cardinality(PickNames) } :
      \A i \in 1..Len(l) : \A j \in 1..Len(l) : l[i].name = l[j].name => i = j }

PickInit ==
  /\ AlarmIdle
  /\ AcceptedIdle
  /\ AddrIdle /\ CodecIdle /\ ConnIdle /\ ErrIdle /\ FrameIdle /\ FwdIdle /\ LoopIdle
  /\ PortsIdle /\ PudpIdle /\ ResIdle /\ RunIdle /\ SessIdle /\ SocksIdle /\ TargetsIdle
  /\ TcpIdle /\ UdpIdle
  /\ iItems \in PodLists
  /\ iListOK \in BOOLEAN
  /\ iOld \in {NoPair, CachedPair("p1")}
  /\ iName = iOld.name /\ iAddr = iOld.addr
  /\ ipc = "list" /\ iPick = NoPod /\ iLock = "free"
  /\ iRet = [rv |-> "", err |-> ""] /\ iGot = NoPair

\* a comparison that puts the oldest pod first
less_OldestFirst(a, b) == a.created < b.created

\* func(i, j int) bool { return !pods[i].CreationTimestamp.Before(&pods[j].CreationTimestamp) }
less(a, b) == ~(a.created < b.created)

Swap(data, i, j) == [data EXCEPT ![i] = data[j], ![j] = data[i]]

\* the inner loop of the insertion sort that sort.Slice runs on a short
\* slice: for j := i; j > a && less(data[j], data[j-1]); j-- { swap }
RECURSIVE SinkPod(_, _)
SinkPod(data, j) ==
  IF j > 1 /\ less(data[j], data[j - 1]) THEN SinkPod(Swap(data, j, j - 1), j - 1) ELSE data

RECURSIVE InsertionFrom(_, _)
InsertionFrom(data, i) ==
  IF i > Len(data) THEN data ELSE InsertionFrom(SinkPod(data, i), i + 1)

\* sort.Slice(pods, less)
sortSlice(pods) == InsertionFrom(pods, 2)

\* for _, pod := range pods { if pod.Status.Phase == corev1.PodRunning { ... } }
RECURSIVE FirstRunning(_)
FirstRunning(pods) ==
  IF pods = <<>> THEN NoPod
  ELSE IF Head(pods).phase = "Running" THEN Head(pods) ELSE FirstRunning(Tail(pods))

\* d.podCli.List, sort.Slice and the loop up to the first Running pod
PickList ==
  /\ ipc = "list"
  /\ IF ~iListOK
       THEN ipc' = "returned" /\ iRet' = [rv |-> "", err |-> "list pods"] /\ UNCHANGED iPick
       ELSE ipc' = "scan" /\ iPick' = FirstRunning(sortSlice(iItems)) /\ UNCHANGED iRet
  /\ UNCHANGED <<iItems, iListOK, iOld, iName, iAddr, iLock, iGot>>
  /\ UNCHANGED pickOthers

\* return "", errors.New("no running pods found")
PickNone ==
  /\ ipc = "scan" /\ iPick = NoPod
  /\ ipc' = "returned" /\ iRet' = [rv |-> "", err |-> "no running pods found"]
  /\ UNCHANGED <<iItems, iListOK, iOld, iPick, iName, iAddr, iLock, iGot>>
  /\ UNCHANGED pickOthers

\* d.mu.Lock()
PickLock ==
  /\ ipc = "scan" /\ iPick # NoPod /\ iLock = "free"
  /\ iLock' = "w" /\ ipc' = "name"
  /\ UNCHANGED <<iItems, iListOK, iOld, iPick, iName, iAddr, iRet, iGot>>
  /\ UNCHANGED pickOthers

\* d.podName = pod.Name
PickStoreName ==
  /\ ipc = "name"
  /\ iName' = iPick.name /\ ipc' = "addr"
  /\ UNCHANGED <<iItems, iListOK, iOld, iPick, iAddr, iLock, iRet, iGot>>
  /\ UNCHANGED pickOthers

\* d.addr, _ = xnet.AddrFromIP(pod.Status.PodIP)
PickStoreAddr ==
  /\ ipc = "addr"
  /\ iAddr' = AddrFromIP(PickIPOf(iPick.name)).addr /\ ipc' = "unlock"
  /\ UNCHANGED <<iItems, iListOK, iOld, iPick, iName, iLock, iRet, iGot>>
  /\ UNCHANGED pickOthers

\* d.mu.Unlock(); return podList.ResourceVersion, nil
PickUnlock ==
  /\ ipc = "unlock"
  /\ iLock' = "free" /\ ipc' = "returned" /\ iRet' = [rv |-> "rv", err |-> ""]
  /\ UNCHANGED <<iItems, iListOK, iOld, iPick, iName, iAddr, iGot>>
  /\ UNCHANGED pickOthers

\* another goroutine takes d.mu.RLock(), as Get() does, and reads the cache
PickReaderLock ==
  /\ iLock = "free" /\ ipc # "none"
  /\ iLock' = "r"
  /\ iGot' = [name |-> iName, addr |-> iAddr]
  /\ UNCHANGED <<iItems, iListOK, iOld, ipc, iPick, iName, iAddr, iRet>>
  /\ UNCHANGED pickOthers

\* d.mu.RUnlock()
PickReaderUnlock ==
  /\ iLock = "r"
  /\ iLock' = "free"
  /\ UNCHANGED <<iItems, iListOK, iOld, ipc, iPick, iName, iAddr, iRet, iGot>>
  /\ UNCHANGED pickOthers

PickNext ==
  \/ PickList
  \/ PickNone
  \/ PickLock
  \/ PickStoreName
  \/ PickStoreAddr
  \/ PickUnlock
  \/ PickReaderLock
  \/ PickReaderUnlock

SpecPick == PickInit /\ [][PickNext]_vars

\* the listed pods whose phase is Running and whose creation timestamp is
\* the greatest among those
NewestRunning(items) ==
  { items[i].name : i \in { k \in 1..Len(items) :
      /\ items[k].phase = "Running"
      /\ \A j \in 1..Len(items) :
           items[j].phase = "Running" => items[j].created <= items[k].created } }

\* C33: updatePodIP selects, among the listed pods whose phase is Running,
\* one with the greatest creation timestamp and stores its name and its IP
\* together under the write lock; if no listed pod is Running it returns an
\* error and leaves the cached (podName, address) unchanged.
C33_NewestRunningPodStored ==
  /\ (ipc = "returned" /\ iRet.err = "")
       => /\ iName \in NewestRunning(iItems)
          /\ [name |-> iName, addr |-> iAddr] = CachedPair(iName)
  /\ (ipc = "returned" /\ iListOK /\ NewestRunning(iItems) = {})
       => /\ iRet.err = "no running pods found"
          /\ [name |-> iName, addr |-> iAddr] = iOld
  /\ (ipc = "returned" /\ iListOK /\ NewestRunning(iItems) # {}) => iRet.err = ""
  /\ ipc \in {"name", "addr", "unlock"} => iLock = "w"
  /\ iLock # "w" => [name |-> iName, addr |-> iAddr] \in {iOld, CachedPair(iName)}
  /\ iGot \in {NoPair, iOld, CachedPair(iGot.name)}

\* of two Running pods the newer one, listed last behind a pod that is not
\* Running, replaced the cached pod
C33_Witness ==
  /\ ipc = "returned" /\ iRet.err = "" /\ iOld = CachedPair("p1")
  /\ Len(iItems) = 3 /\ iItems[1].phase = "Pending" /\ iItems[1].created = 2
  /\ iItems[2].phase = "Running" /\ iItems[2].created = 1
  /\ iItems[3].phase = "Running" /\ iItems[3].created = 2
  /\ iName = iItems[3].name /\ iName = "p2" /\ iAddr.data = ParseIP("fd00::2")

\* no listed pod is Running: the error, and the cache as it was
C33_NoRunningPod ==
  /\ ipc = "returned" /\ iRet.err = "no running pods found"
  /\ Len(iItems) = 2 /\ iOld = CachedPair("p1") /\ iName = "p1" /\ iAddr = iOld.addr

(***************************************************************************)
(* Alarm machine: one Alarm after Start, with the goroutine of Start, its  *)
(* timer, the passing of time in ticks, and a caller of Reset and Done.    *)
(***************************************************************************)
\* the duration a.d, in ticks
AlarmTicks == 2

MaxResets == 2

AlarmInit ==
  /\ AcceptedIdle /\ AddrIdle /\ CodecIdle /\ ConnIdle /\ ErrIdle /\ FrameIdle /\ FwdIdle
  /\ LoopIdle /\ PickIdle /\ PortsIdle /\ PudpIdle /\ ResIdle /\ RunIdle /\ SessIdle
  /\ SocksIdle /\ TargetsIdle /\ TcpIdle /\ UdpIdle
  /\ mG = "new" /\ mLeft = 0 /\ mC = FALSE /\ mDone = FALSE /\ mR = "idle"
  /\ mElapsed = 0 /\ mCalls = 0 /\ mSaw = "none"

\* a stopTimer that leaves the value of an expired timer in t.C
stopTimer_NoDrain(left, c) == [left |-> 0, c |-> c, blocked |-> FALSE]

\* stopTimer: t.Stop() stops a running timer; for an expired one it
\* returns false and <-t.C takes the value that t.C holds, or waits for
\* ever when t.C holds none
stopTimer(left, c) ==
  IF left > 0 THEN [left |-> 0, c |-> c, blocked |-> FALSE]
  ELSE IF c THEN [left |-> 0, c |-> FALSE, blocked |-> FALSE]
  ELSE [left |-> 0, c |-> c, blocked |-> TRUE]

\* t := time.NewTimer(a.d)
AlarmNewTimer ==
  /\ mG = "new"
  /\ mG' = "select" /\ mLeft' = AlarmTicks
  /\ UNCHANGED <<mC, mDone, mR, mElapsed, mCalls, mSaw>>
  /\ UNCHANGED alarmOthers

\* one tick of time passes; a running timer that reaches its end sends on
\* t.C
AlarmTick ==
  /\ mG # "none"
  /\ mElapsed <= AlarmTicks \/ mLeft > 0
  /\ mElapsed' = Min(mElapsed + 1, AlarmTicks + 1)
  /\ mLeft' = IF mLeft > 0 THEN mLeft - 1 ELSE 0
  /\ mC' = (mC \/ mLeft = 1)
  /\ UNCHANGED <<mG, mDone, mR, mCalls, mSaw>>
  /\ UNCHANGED alarmOthers

\* case <-t.C: close(a.done)
AlarmTimerFires ==
  /\ mG = "select" /\ mC
  /\ mC' = FALSE /\ mDone' = TRUE /\ mG' = "fired"
  /\ UNCHANGED <<mLeft, mR, mElapsed, mCalls, mSaw>>
  /\ UNCHANGED alarmOthers

\* stopTimer(t); return, after close(a.done)
AlarmStopFired ==
  /\ mG = "fired"
  /\ LET st == stopTimer(mLeft, mC)
     IN  /\ mLeft' = st.left /\ mC' = st.c
         /\ mG' = IF st.blocked THEN "blocked" ELSE "returned"
  /\ UNCHANGED <<mDone, mR, mElapsed, mCalls, mSaw>>
  /\ UNCHANGED alarmOthers

\* case <-a.reset, together with the caller's case a.reset <- struct{}{}:
\* Reset returns
AlarmRecvReset ==
  /\ mG = "select" /\ mR = "sending"
  /\ mG' = "reset" /\ mR' = "idle" /\ mCalls' = mCalls + 1
  /\ mElapsed' = 0
  /\ UNCHANGED <<mLeft, mC, mDone, mSaw>>
  /\ UNCHANGED alarmOthers

\* stopTimer(t) in the case of a.reset
AlarmStopReset ==
  /\ mG = "reset"
  /\ LET st == stopTimer(mLeft, mC)
     IN  /\ mLeft' = st.left /\ mC' = st.c
         /\ mG' = IF st.blocked THEN "blocked" ELSE "rearm"
  /\ UNCHANGED <<mDone, mR, mElapsed, mCalls, mSaw>>
  /\ UNCHANGED alarmOthers

\* t.Reset(a.d)
AlarmRearm ==
  /\ mG = "rearm"
  /\ mLeft' = AlarmTicks /\ mG' = "select"
  /\ UNCHANGED <<mC, mDone, mR, mElapsed, mCalls, mSaw>>
  /\ UNCHANGED alarmOthers

\* a goroutine calls a.Reset() and is at its select
ResetCall ==
  /\ mR = "idle" /\ mCalls < MaxResets
  /\ mR' = "sending"
  /\ UNCHANGED <<mG, mLeft, mC, mDone, mElapsed, mCalls, mSaw>>
  /\ UNCHANGED alarmOthers

\* case <-a.done of Reset
ResetAfterDone ==
  /\ mR = "sending" /\ mDone
  /\ mR' = "idle" /\ mCalls' = mCalls + 1
  /\ UNCHANGED <<mG, mLeft, mC, mDone, mElapsed, mSaw>>
  /\ UNCHANGED alarmOthers

\* a.Done()
DoneCall ==
  /\ mR = "idle"
  /\ mSaw' = IF mDone THEN "true" ELSE "false"
  /\ UNCHANGED <<mG, mLeft, mC, mDone, mR, mElapsed, mCalls>>
  /\ UNCHANGED alarmOthers

AlarmNext ==
  \/ AlarmNewTimer
  \/ AlarmTick
  \/ AlarmTimerFires
  \/ AlarmStopFired
  \/ AlarmRecvReset
  \/ AlarmStopReset
  \/ AlarmRearm
  \/ ResetCall
  \/ ResetAfterDone
  \/ DoneCall

SpecAlarm == AlarmInit /\ [][AlarmNext]_vars

\* the goroutine of Start and the caller inside Reset run while they can
\* take a step; time need not pass and Reset need not be called
SpecAlarmFair ==
  /\ SpecAlarm
  /\ WF_vars(AlarmNewTimer) /\ WF_vars(AlarmTimerFires) /\ WF_vars(AlarmStopFired)
  /\ WF_vars(AlarmRecvReset) /\ WF_vars(AlarmStopReset) /\ WF_vars(AlarmRearm)
  /\ WF_vars(ResetAfterDone)

\* C39: Done() is false from Start until the duration has elapsed with no
\* Reset in between, and once true it stays true; Reset returns, before
\* and after the alarm fired, and a Reset after the alarm fired does not
\* set the timer again.
C39_AlarmDoneAndReset ==
  /\ [][(mDone' /\ ~mDone) => mElapsed >= AlarmTicks]_vars
  /\ [][mDone => mDone']_vars
  /\ [](mSaw = "true" => mDone)
  /\ [][mSaw' = "false" /\ mSaw # "false" => ~mDone]_vars
  /\ [][mDone => (mLeft' <= mLeft /\ ~(mC' /\ ~mC))]_vars
  /\ (mR = "sending") ~> (mR = "idle")

\* the timer ran out after a Reset had set it again; Done() returned true
\* and a later Reset has returned
C39_Witness ==
  /\ mDone /\ mSaw = "true" /\ mCalls = 2 /\ mR = "idle"
  /\ mG = "blocked" /\ mElapsed >= AlarmTicks

\* a Reset was taken and the timer set again with no value left in t.C;
\* Done() is false
C39_ResetAfterExpiry ==
  /\ ~mDone /\ mG = "select" /\ mLeft = AlarmTicks /\ ~mC
  /\ mCalls = 1 /\ mElapsed = 0 /\ mSaw = "false"

====
